---- MODULE Spec2Model ----
(***************************************************************************)
(* The "Getting started with operators" notebook as a state machine: a     *)
(* Jupyter kernel (name bindings, object heap, execution counter) that     *)
(* runs the code cells of one of the two notebook files, and the operator  *)
(* flow calls those cells make, with exact arithmetic for amplitudes.      *)
(*                                                                         *)
(* Numbers are (re + i*im) / sqrt(2)^k with integer re, im and k >= 0, so  *)
(* that 1/sqrt(2), the Hadamard gate and the Pauli matrices are exact.     *)
(* Basis labels follow the notebook: the leftmost character of a label is  *)
(* the highest qubit, and the label read in base 2 indexes the amplitude.  *)
(***************************************************************************)
EXTENDS Integers, Sequences, FiniteSets, TLC

VARIABLES nb, cursor, ns, heap, count, outs, calls, status, faults, twin, lib

vars == <<nb, cursor, ns, heap, count, outs, calls, status, faults, twin, lib>>

kvars == <<nb, cursor, ns, heap, count, outs, calls, status, faults, twin>>

(***************************************************************************)
(* Bounds of the model.                                                    *)
(***************************************************************************)
\* injected library failures per kernel session
MaxFaults == 1
\* Pauli strings in a drawn observable
MaxTerms == 2
\* largest tensor power drawn
MaxPower == 3

(***************************************************************************)
(* Exact scalars.                                                          *)
(***************************************************************************)
Sc(re, im, k) == [re |-> re, im |-> im, k |-> k]

RECURSIVE NormS(_)
NormS(s) ==
  IF s.re = 0 /\ s.im = 0 THEN Sc(0, 0, 0)
  ELSE IF s.k >= 2 /\ s.re % 2 = 0 /\ s.im % 2 = 0
       THEN NormS(Sc(s.re \div 2, s.im \div 2, s.k - 2))
       ELSE s

SOne == Sc(1, 0, 0)
SZero == Sc(0, 0, 0)
\* 1 / np.sqrt(2)
SInvSqrt2 == Sc(1, 0, 1)

SMul(a, b) ==
  NormS(Sc(a.re * b.re - a.im * b.im, a.re * b.im + a.im * b.re, a.k + b.k))

SConj(a) == Sc(a.re, 0 - a.im, a.k)

SNeg(a) == Sc(0 - a.re, 0 - a.im, a.k)

\* a and b brought to the exponent k (k - a.k even and >= 0)
SLift(a, k) == Sc(a.re * 2 ^ ((k - a.k) \div 2), a.im * 2 ^ ((k - a.k) \div 2), k)

SMax(i, j) == IF i >= j THEN i ELSE j

\* the sum; the two exponents differ by an even number in every use (or one
\* summand is 0)
SAdd(a, b) ==
  IF a.re = 0 /\ a.im = 0 THEN NormS(b)
  ELSE IF b.re = 0 /\ b.im = 0 THEN NormS(a)
  ELSE LET k == SMax(a.k, b.k)
           x == SLift(a, k)
           y == SLift(b, k)
       IN NormS(Sc(x.re + y.re, x.im + y.im, k))

\* |a|^2
SAbs2(a) == NormS(Sc(a.re * a.re + a.im * a.im, 0, 2 * a.k))

(***************************************************************************)
(* State vectors: n qubits, amplitudes amp[i + 1] of basis index i, all    *)
(* divided by sqrt(2)^k.                                                   *)
(***************************************************************************)
Bit(i, q) == (i \div (2 ^ q)) % 2

Flip(i, q) == IF Bit(i, q) = 0 THEN i + 2 ^ q ELSE i - 2 ^ q

Amp(re, im) == [re |-> re, im |-> im]

\* a state vector; the amplitudes are written out as a sequence
Vec(n, k, amp) == [n |-> n, k |-> k, amp |-> amp \o <<>>]

AllEven(amp) == \A i \in 1..Len(amp) : amp[i].re % 2 = 0 /\ amp[i].im % 2 = 0

IsZeroVec(amp) == \A i \in 1..Len(amp) : amp[i].re = 0 /\ amp[i].im = 0

RECURSIVE NormV(_)
NormV(v) ==
  IF IsZeroVec(v.amp) THEN Vec(v.n, 0, v.amp)
  ELSE IF v.k >= 2 /\ AllEven(v.amp)
       THEN NormV(Vec(v.n, v.k - 2, [i \in 1..Len(v.amp) |->
                              Amp(v.amp[i].re \div 2, v.amp[i].im \div 2)]))
       ELSE v

\* |0...0> on n qubits
ZeroVec(n) == Vec(n, 0, [i \in 1..(2 ^ n) |-> IF i = 1 THEN Amp(1, 0) ELSE Amp(0, 0)])

AmpMul(a, s) == Amp(a.re * s.re - a.im * s.im, a.re * s.im + a.im * s.re)

\* the vector times a scalar
VScale(v, s) ==
  IF s = SOne THEN v
  ELSE Vec(v.n, v.k + s.k, [i \in 1..Len(v.amp) |-> AmpMul(v.amp[i], s)])

\* the amplitude of basis index i as a scalar
VAt(v, i) == NormS(Sc(v.amp[i + 1].re, v.amp[i + 1].im, v.k))

\* both vectors at one exponent (exponents differ by an even number)
VLift(v, k) ==
  Vec(v.n, k, [i \in 1..Len(v.amp) |->
              Amp(v.amp[i].re * 2 ^ ((k - v.k) \div 2),
                  v.amp[i].im * 2 ^ ((k - v.k) \div 2))])

VAdd(v, w) ==
  IF IsZeroVec(v.amp) THEN w
  ELSE IF IsZeroVec(w.amp) THEN v
  ELSE LET k == SMax(v.k, w.k)
           x == VLift(v, k)
           y == VLift(w, k)
       IN Vec(v.n, k, [i \in 1..Len(v.amp) |->
                         Amp(x.amp[i].re + y.amp[i].re, x.amp[i].im + y.amp[i].im)])

RECURSIVE SumAmp(_, _, _)
\* f[lo] + ... + f[hi] of amplitudes, by halves
SumAmp(f, lo, hi) ==
  IF lo = hi THEN f[lo]
  ELSE LET mid == (lo + hi) \div 2
           a == SumAmp(f, lo, mid)
           b == SumAmp(f, mid + 1, hi)
       IN Amp(a.re + b.re, a.im + b.im)

\* <v|w>
Inner(v, w) ==
  LET t == [i \in 1..Len(v.amp) |->
              Amp(v.amp[i].re * w.amp[i].re + v.amp[i].im * w.amp[i].im,
                  v.amp[i].re * w.amp[i].im - v.amp[i].im * w.amp[i].re)] \o <<>>
      sum == SumAmp(t, 1, Len(t))
  IN NormS(Sc(sum.re, sum.im, v.k + w.k))

\* v (x) w, v on the high qubits
Kron(v, w) ==
  Vec(v.n + w.n, v.k + w.k, [i \in 1..(2 ^ (v.n + w.n)) |->
                    LET hi == (i - 1) \div (2 ^ w.n)
                        lo == (i - 1) % (2 ^ w.n)
                        a == v.amp[hi + 1]
                        b == w.amp[lo + 1]
                    IN Amp(a.re * b.re - a.im * b.im, a.re * b.im + a.im * b.re)])

(***************************************************************************)
(* Gates on a state vector.                                                *)
(***************************************************************************)
GateX(v, q) == Vec(v.n, v.k, [i \in 1..Len(v.amp) |-> v.amp[Flip(i - 1, q) + 1]])

GateZ(v, q) ==
  Vec(v.n, v.k, [i \in 1..Len(v.amp) |->
     IF Bit(i - 1, q) = 1 THEN Amp(0 - v.amp[i].re, 0 - v.amp[i].im) ELSE v.amp[i]])

\* Y|0> = i|1>, Y|1> = -i|0>
GateY(v, q) ==
  Vec(v.n, v.k, [i \in 1..Len(v.amp) |->
     LET a == v.amp[Flip(i - 1, q) + 1]
     IN IF Bit(i - 1, q) = 1 THEN Amp(0 - a.im, a.re) ELSE Amp(a.im, 0 - a.re)])

\* S = diag(1, i)
GateS(v, q) ==
  Vec(v.n, v.k, [i \in 1..Len(v.amp) |->
     IF Bit(i - 1, q) = 1 THEN Amp(0 - v.amp[i].im, v.amp[i].re) ELSE v.amp[i]])

\* S where S-dagger belongs
GateSdgAsS(v, q) ==
  Vec(v.n, v.k, [i \in 1..Len(v.amp) |->
     IF Bit(i - 1, q) = 1 THEN Amp(0 - v.amp[i].im, v.amp[i].re) ELSE v.amp[i]])

\* S-dagger = diag(1, -i)
GateSdg(v, q) ==
  Vec(v.n, v.k, [i \in 1..Len(v.amp) |->
     IF Bit(i - 1, q) = 1 THEN Amp(v.amp[i].im, 0 - v.amp[i].re) ELSE v.amp[i]])

\* H = [[1, 1], [1, -1]] / sqrt(2)
GateH(v, q) ==
  Vec(v.n, v.k + 1, [i \in 1..Len(v.amp) |->
      LET a0 == v.amp[(IF Bit(i - 1, q) = 0 THEN i - 1 ELSE Flip(i - 1, q)) + 1]
          a1 == v.amp[(IF Bit(i - 1, q) = 1 THEN i - 1 ELSE Flip(i - 1, q)) + 1]
      IN IF Bit(i - 1, q) = 0 THEN Amp(a0.re + a1.re, a0.im + a1.im)
                              ELSE Amp(a0.re - a1.re, a0.im - a1.im)])

\* controlled X: control c, target t
GateCX(v, c, t) ==
  Vec(v.n, v.k, [i \in 1..Len(v.amp) |->
     IF Bit(i - 1, c) = 1 THEN v.amp[Flip(i - 1, t) + 1] ELSE v.amp[i]])

GateCZ(v, c, t) ==
  Vec(v.n, v.k, [i \in 1..Len(v.amp) |->
     IF Bit(i - 1, c) = 1 /\ Bit(i - 1, t) = 1
     THEN Amp(0 - v.amp[i].re, 0 - v.amp[i].im) ELSE v.amp[i]])

GateSwap(v, a, b) ==
  Vec(v.n, v.k, [i \in 1..Len(v.amp) |->
     IF Bit(i - 1, a) # Bit(i - 1, b) THEN v.amp[Flip(Flip(i - 1, a), b) + 1]
     ELSE v.amp[i]])

\* one circuit instruction [g |-> name, qs |-> qubits]
ApplyGate(v, ins) ==
  CASE ins.g = "h" -> GateH(v, ins.qs[1])
    [] ins.g = "x" -> GateX(v, ins.qs[1])
    [] ins.g = "y" -> GateY(v, ins.qs[1])
    [] ins.g = "z" -> GateZ(v, ins.qs[1])
    [] ins.g = "s" -> GateS(v, ins.qs[1])
    [] ins.g = "sdg" -> GateSdg(v, ins.qs[1])
    [] ins.g = "cx" -> GateCX(v, ins.qs[1], ins.qs[2])
    [] ins.g = "cz" -> GateCZ(v, ins.qs[1], ins.qs[2])
    [] ins.g = "swap" -> GateSwap(v, ins.qs[1], ins.qs[2])
    [] OTHER -> v

RECURSIVE RunGates(_, _, _)
\* the instructions i.. of gates applied in order to v
RunGates(v, gates, i) ==
  IF i > Len(gates) \/ v.n < 0 THEN v
  ELSE RunGates(ApplyGate(v, gates[i]), gates, i + 1)

\* the circuit applied to the vector
RunCircuit(v, qc) == RunGates(v, qc.gates, 1)

(***************************************************************************)
(* Python and operator-flow values.  Every value is a record with a type   *)
(* tag t.  A basis label is its sequence of bits, a Pauli string its       *)
(* sequence of letters, both leftmost (highest qubit) first.               *)
(***************************************************************************)
PyNone == [t |-> "None"]
PyInt(v) == [t |-> "int", v |-> v]
PyFloat(s) == [t |-> "float", s |-> s]
PyStr(s) == [t |-> "str", s |-> s]
PyLabel(bits) == [t |-> "label", bits |-> bits]
PyList(items) == [t |-> "list", items |-> items]
PyDict(keys, vals) == [t |-> "dict", keys |-> keys, vals |-> vals]
PyType(name) == [t |-> "type", name |-> name]
PyError(kind) == [t |-> "Error", kind |-> kind]
Builtin(name) == [t |-> "builtin", name |-> name]

IsError(v) == v.t = "Error"

\* a coefficient: a number, times the named circuit parameter when par # ""
Coef(num, par) == [num |-> num, par |-> par]
CoefOne == Coef(SOne, "")
CoefMul(a, b) == Coef(SMul(a.num, b.num), IF a.par = "" THEN b.par ELSE a.par)
CoefConj(a) == Coef(SConj(a.num), a.par)

StateFnTypes == {"VectorStateFn", "DictStateFn", "CircuitStateFn", "OperatorStateFn"}
PrimitiveOpTypes == {"PauliOp", "CircuitOp", "MatrixOp"}
ListOpTypes == {"SummedOp", "ComposedOp", "TensoredOp", "ListOp"}
OperatorTypes == PrimitiveOpTypes \cup ListOpTypes \cup {"EvolvedOp"}

MkStateFn(t, prim, coeff, meas) == [t |-> t, prim |-> prim, coeff |-> coeff, meas |-> meas]
MkOp(t, prim, coeff) == [t |-> t, prim |-> prim, coeff |-> coeff]
MkListOp(t, oplist, coeff, abelian) ==
  [t |-> t, oplist |-> oplist, coeff |-> coeff, abelian |-> abelian]
MkCircuit(n, gates) == [t |-> "QuantumCircuit", n |-> n, gates |-> gates]
Ins(g, qs) == [g |-> g, qs |-> qs]

RECURSIVE Log2(_)
Log2(m) == IF m <= 1 THEN 0 ELSE 1 + Log2(m \div 2)

RECURSIVE LabelIndex(_)
\* int(label, 2)
LabelIndex(bits) ==
  IF Len(bits) = 0 THEN 0
  ELSE 2 * LabelIndex(SubSeq(bits, 1, Len(bits) - 1)) + bits[Len(bits)]

IndexLabel(i, n) == [j \in 1..n |-> Bit(i, n - j)]

RECURSIVE NumQubits(_)
NumQubits(v) ==
  CASE v.t = "VectorStateFn" -> v.prim.n
    [] v.t = "DictStateFn" -> Len(v.prim.keys[1])
    [] v.t = "CircuitStateFn" -> v.prim.n
    [] v.t = "OperatorStateFn" -> NumQubits(v.prim)
    [] v.t = "PauliOp" -> Len(v.prim)
    [] v.t = "CircuitOp" -> v.prim.n
    [] v.t = "MatrixOp" -> Log2(Len(v.prim))
    [] v.t = "EvolvedOp" -> NumQubits(v.prim)
    [] v.t = "TensoredOp" -> NumQubits(v.oplist[1]) + NumQubits(v.oplist[2])
    [] v.t \in {"SummedOp", "ComposedOp", "ListOp"} -> NumQubits(v.oplist[1])
    [] OTHER -> 0

(***************************************************************************)
(* StateFn(primitive, coeff): the class follows the primitive's type.      *)
(***************************************************************************)
\* a constructor that takes no operator for a primitive
StateFnClassNoOperators(prim) ==
  CASE prim.t = "list" -> "VectorStateFn"
    [] prim.t = "dict" -> "DictStateFn"
    [] prim.t = "QuantumCircuit" -> "CircuitStateFn"
    [] OTHER -> "TypeError"

\* the class StateFn makes of the primitive
StateFnClass(prim) ==
  CASE prim.t = "list" -> "VectorStateFn"
    [] prim.t = "dict" -> "DictStateFn"
    [] prim.t = "QuantumCircuit" -> "CircuitStateFn"
    [] prim.t \in OperatorTypes -> "OperatorStateFn"
    [] OTHER -> "TypeError"

StateFn(prim, coeff, meas) ==
  CASE StateFnClass(prim) = "VectorStateFn" ->
         MkStateFn("VectorStateFn",
                   Vec(Log2(Len(prim.items)), 0, [i \in 1..Len(prim.items) |-> Amp(prim.items[i].v, 0)]),
                   coeff, meas)
    [] StateFnClass(prim) = "DictStateFn" ->
         MkStateFn("DictStateFn",
                   [keys |-> [i \in 1..Len(prim.keys) |-> prim.keys[i].bits],
                    vals |-> [i \in 1..Len(prim.vals) |-> prim.vals[i].v]],
                   coeff, meas)
    [] StateFnClass(prim) = "CircuitStateFn" ->
         MkStateFn("CircuitStateFn", [n |-> prim.n, gates |-> prim.gates], coeff, meas)
    [] StateFnClass(prim) = "OperatorStateFn" ->
         MkStateFn("OperatorStateFn", prim, coeff, meas)
    [] OTHER -> PyError("TypeError")

\* the pre-built state functions and operators of qiskit.aqua.operators
Zero == MkStateFn("DictStateFn", [keys |-> <<<<0>>>>, vals |-> <<1>>], CoefOne, FALSE)
One == MkStateFn("DictStateFn", [keys |-> <<<<1>>>>, vals |-> <<1>>], CoefOne, FALSE)
Plus == MkStateFn("CircuitStateFn", [n |-> 1, gates |-> <<Ins("h", <<0>>)>>], CoefOne, FALSE)
Minus ==
  MkStateFn("CircuitStateFn",
            [n |-> 1, gates |-> <<Ins("x", <<0>>), Ins("h", <<0>>)>>], CoefOne, FALSE)
X == MkOp("PauliOp", <<"X">>, CoefOne)
Y == MkOp("PauliOp", <<"Y">>, CoefOne)
Z == MkOp("PauliOp", <<"Z">>, CoefOne)
I == MkOp("PauliOp", <<"I">>, CoefOne)
CX == MkOp("CircuitOp", [n |-> 2, gates |-> <<Ins("cx", <<0, 1>>)>>], CoefOne)
S == MkOp("CircuitOp", [n |-> 1, gates |-> <<Ins("s", <<0>>)>>], CoefOne)
H == MkOp("CircuitOp", [n |-> 1, gates |-> <<Ins("h", <<0>>)>>], CoefOne)
T == MkOp("CircuitOp", [n |-> 1, gates |-> <<Ins("t", <<0>>)>>], CoefOne)
Swap == MkOp("CircuitOp", [n |-> 2, gates |-> <<Ins("swap", <<0, 1>>)>>], CoefOne)
CZ == MkOp("CircuitOp", [n |-> 2, gates |-> <<Ins("cz", <<0, 1>>)>>], CoefOne)

(***************************************************************************)
(* Tensor products.                                                        *)
(***************************************************************************)
ShiftGates(gates, by) ==
  [i \in 1..Len(gates) |->
     Ins(gates[i].g, [j \in 1..Len(gates[i].qs) |-> gates[i].qs[j] + by])]

\* a on the high qubits, b on the low ones
TensorCircuits(a, b) == [n |-> a.n + b.n, gates |-> b.gates \o ShiftGates(a.gates, b.n)]

\* a.tensor(b)
Tensor(a, b) ==
  CASE a.t = "PauliOp" /\ b.t = "PauliOp" ->
         MkOp("PauliOp", a.prim \o b.prim, CoefMul(a.coeff, b.coeff))
    [] a.t = "CircuitOp" /\ b.t = "CircuitOp" ->
         MkOp("CircuitOp", TensorCircuits(a.prim, b.prim), CoefMul(a.coeff, b.coeff))
    [] a.t = "CircuitStateFn" /\ b.t = "CircuitStateFn" /\ a.meas = b.meas ->
         MkStateFn("CircuitStateFn", TensorCircuits(a.prim, b.prim),
                   CoefMul(a.coeff, b.coeff), a.meas)
    [] a.t = "DictStateFn" /\ b.t = "DictStateFn" /\ a.meas = b.meas ->
         MkStateFn("DictStateFn",
                   [keys |-> [i \in 1..(Len(a.prim.keys) * Len(b.prim.keys)) |->
                                a.prim.keys[((i - 1) \div Len(b.prim.keys)) + 1]
                                \o b.prim.keys[((i - 1) % Len(b.prim.keys)) + 1]],
                    vals |-> [i \in 1..(Len(a.prim.keys) * Len(b.prim.keys)) |->
                                a.prim.vals[((i - 1) \div Len(b.prim.keys)) + 1]
                                * b.prim.vals[((i - 1) % Len(b.prim.keys)) + 1]]],
                   CoefMul(a.coeff, b.coeff), a.meas)
    [] a.t = "VectorStateFn" /\ b.t = "VectorStateFn" /\ a.meas = b.meas ->
         MkStateFn("VectorStateFn", NormV(Kron(a.prim, b.prim)),
                   CoefMul(a.coeff, b.coeff), a.meas)
    [] a.t \in (StateFnTypes \cup OperatorTypes) /\ b.t \in (StateFnTypes \cup OperatorTypes) ->
         MkListOp("TensoredOp", <<a, b>>, CoefOne, FALSE)
    [] OTHER -> PyError("TypeError")

RECURSIVE TensorPower(_, _)
\* a.tensorpower(m): a tensored with itself m times
TensorPower(a, m) ==
  IF m < 1 THEN PyError("TypeError")
  ELSE IF m = 1 THEN a
  ELSE Tensor(TensorPower(a, m - 1), a)

\* ^ that takes every right operand for an operator
XorAsTensor(a, b) == Tensor(a, b)

\* a ^ b
Xor(a, b) == IF b.t = "int" THEN TensorPower(a, b.v) ELSE Tensor(a, b)

(***************************************************************************)
(* Sums, scalar multiples, evolutions, adjoints.                           *)
(***************************************************************************)
\* a + b: a lazy SummedOp; two Pauli operators over one string add coefficients
Add(a, b) ==
  CASE a.t = "PauliOp" /\ b.t = "PauliOp" /\ a.prim = b.prim /\ a.coeff.par = b.coeff.par ->
         MkOp("PauliOp", a.prim, Coef(SAdd(a.coeff.num, b.coeff.num), a.coeff.par))
    [] a.t = "SummedOp" /\ a.coeff = CoefOne /\ b.t \in OperatorTypes ->
         MkListOp("SummedOp", Append(a.oplist, b), CoefOne, FALSE)
    [] a.t \in OperatorTypes /\ b.t \in OperatorTypes ->
         MkListOp("SummedOp", <<a, b>>, CoefOne, FALSE)
    [] OTHER -> PyError("TypeError")

\* c * a: a new operator over the same primitive with the coefficient multiplied
Mul(c, a) ==
  CASE c.t = "Parameter" /\ a.t \in (OperatorTypes \cup StateFnTypes) ->
         [a EXCEPT !.coeff = CoefMul(a.coeff, Coef(SOne, c.name))]
    [] c.t = "float" /\ a.t \in (OperatorTypes \cup StateFnTypes) ->
         [a EXCEPT !.coeff = CoefMul(a.coeff, Coef(c.s, ""))]
    [] c.t = "int" /\ a.t \in (OperatorTypes \cup StateFnTypes) ->
         [a EXCEPT !.coeff = CoefMul(a.coeff, Coef(Sc(c.v, 0, 0), ""))]
    [] OTHER -> PyError("TypeError")

\* a.exp_i(): the placeholder for e^(-i a)
ExpI(a) == IF a.t \in OperatorTypes THEN MkOp("EvolvedOp", a, CoefOne) ELSE PyError("TypeError")

RECURSIVE Adjoint(_)
\* an adjoint that leaves the coefficient as it is
AdjointKeepsCoeff(a) ==
  CASE a.t = "DictStateFn" -> MkStateFn("DictStateFn", a.prim, a.coeff, ~a.meas)
    [] a.t = "VectorStateFn" ->
         MkStateFn("VectorStateFn",
                   Vec(a.prim.n, a.prim.k, [i \in 1..Len(a.prim.amp) |->
                                             Amp(a.prim.amp[i].re, 0 - a.prim.amp[i].im)]),
                   a.coeff, ~a.meas)
    [] a.t = "OperatorStateFn" ->
         MkStateFn("OperatorStateFn", Adjoint(a.prim), CoefConj(a.coeff), ~a.meas)
    [] a.t = "PauliOp" -> MkOp("PauliOp", a.prim, CoefConj(a.coeff))
    [] a.t = "SummedOp" ->
         MkListOp("SummedOp", [i \in 1..Len(a.oplist) |-> Adjoint(a.oplist[i])],
                  CoefConj(a.coeff), a.abelian)
    [] OTHER -> PyError("TypeError")

\* a.adjoint(): a state function becomes a measurement and back
Adjoint(a) ==
  CASE a.t = "DictStateFn" -> MkStateFn("DictStateFn", a.prim, CoefConj(a.coeff), ~a.meas)
    [] a.t = "VectorStateFn" ->
         MkStateFn("VectorStateFn",
                   Vec(a.prim.n, a.prim.k, [i \in 1..Len(a.prim.amp) |->
                                             Amp(a.prim.amp[i].re, 0 - a.prim.amp[i].im)]),
                   CoefConj(a.coeff), ~a.meas)
    [] a.t = "OperatorStateFn" ->
         MkStateFn("OperatorStateFn", Adjoint(a.prim), CoefConj(a.coeff), ~a.meas)
    [] a.t = "PauliOp" -> MkOp("PauliOp", a.prim, CoefConj(a.coeff))
    [] a.t = "SummedOp" ->
         MkListOp("SummedOp", [i \in 1..Len(a.oplist) |-> Adjoint(a.oplist[i])],
                  CoefConj(a.coeff), a.abelian)
    [] OTHER -> PyError("TypeError")

(***************************************************************************)
(* Composition.                                                            *)
(***************************************************************************)
\* the circuit of the operator put before the circuit of the state
ComposeCircuitsReversed(a, b) ==
  MkStateFn("CircuitStateFn", [n |-> b.prim.n, gates |-> a.prim.gates \o b.prim.gates],
            CoefMul(a.coeff, b.coeff), b.meas)

\* a circuit operator on a circuit state: the state's circuit, then the operator's
ComposeCircuits(a, b) ==
  MkStateFn("CircuitStateFn", [n |-> b.prim.n, gates |-> b.prim.gates \o a.prim.gates],
            CoefMul(a.coeff, b.coeff), b.meas)

\* a.compose(b): b first, then a
Compose(a, b) ==
  CASE ~(a.t \in (OperatorTypes \cup StateFnTypes))
       \/ ~(b.t \in (OperatorTypes \cup StateFnTypes)) -> PyError("TypeError")
    [] a.t \in StateFnTypes /\ ~a.meas -> PyError("ValueError")
    [] NumQubits(a) # NumQubits(b) -> PyError("ValueError")
    [] a.t = "CircuitOp" /\ b.t = "CircuitStateFn" -> ComposeCircuits(a, b)
    [] a.t = "ComposedOp" /\ b.t = "ComposedOp" ->
         MkListOp("ComposedOp", a.oplist \o b.oplist, CoefMul(a.coeff, b.coeff), FALSE)
    [] a.t = "ComposedOp" ->
         MkListOp("ComposedOp", Append(a.oplist, b), a.coeff, FALSE)
    [] OTHER -> MkListOp("ComposedOp", <<a, b>>, CoefOne, FALSE)

\* the operands of @ taken in the other order
MatMulReversed(a, b) == Compose(b, a)

\* a @ b
MatMul(a, b) == Compose(a, b)

(***************************************************************************)
(* What a value denotes: operators act on vectors, state functions are     *)
(* vectors, measurements map vectors to numbers.                           *)
(***************************************************************************)
RECURSIVE ApplyPauli(_, _, _)
\* the letters p..n of the Pauli string applied to v (letter p acts on qubit n - p)
ApplyPauli(label, p, v) ==
  IF p > Len(label) THEN v
  ELSE LET q == Len(label) - p
           w == CASE label[p] = "X" -> GateX(v, q)
                  [] label[p] = "Y" -> GateY(v, q)
                  [] label[p] = "Z" -> GateZ(v, q)
                  [] OTHER -> v
       IN ApplyPauli(label, p + 1, w)

RECURSIVE RowDot(_, _, _)
\* row[1] * amp[1] + ... + row[m] * amp[m]
RowDot(row, amp, m) ==
  IF m = 0 THEN Amp(0, 0)
  ELSE LET r == RowDot(row, amp, m - 1)
       IN Amp(r.re + row[m] * amp[m].re, r.im + row[m] * amp[m].im)

ApplyMatrix(rows, v) ==
  Vec(v.n, v.k, [i \in 1..Len(v.amp) |-> RowDot(rows[i], v.amp, Len(v.amp))])

DictToVec(prim) ==
  LET n == Len(prim.keys[1])
      at(i) == IF \E j \in 1..Len(prim.keys) : LabelIndex(prim.keys[j]) = i
               THEN prim.vals[CHOOSE j \in 1..Len(prim.keys) : LabelIndex(prim.keys[j]) = i]
               ELSE 0
  IN Vec(n, 0, [i \in 1..(2 ^ n) |-> Amp(at(i - 1), 0)])

RECURSIVE ApplyOp(_, _)
RECURSIVE ApplyChain(_, _, _, _)
RECURSIVE ApplySum(_, _, _, _)

\* the operator applied to the vector
ApplyOp(op, v) ==
  CASE op.t = "PauliOp" -> VScale(ApplyPauli(op.prim, 1, v), op.coeff.num)
    [] op.t = "CircuitOp" -> VScale(RunCircuit(v, op.prim), op.coeff.num)
    [] op.t = "MatrixOp" -> VScale(ApplyMatrix(op.prim, v), op.coeff.num)
    [] op.t = "SummedOp" ->
         VScale(ApplySum(op.oplist, 2, v, ApplyOp(op.oplist[1], v)), op.coeff.num)
    [] op.t = "ComposedOp" ->
         VScale(ApplyChain(op.oplist, Len(op.oplist), 1, v), op.coeff.num)
    [] OTHER -> v

\* oplist[i], then oplist[i - 1], ... down to oplist[lo], applied to v
ApplyChain(oplist, i, lo, v) ==
  IF i < lo \/ v.n < 0 THEN v ELSE ApplyChain(oplist, i - 1, lo, ApplyOp(oplist[i], v))

\* acc + oplist[i] v + ... + oplist[m] v
ApplySum(oplist, i, v, acc) ==
  IF i > Len(oplist) \/ acc.n < 0 THEN acc
  ELSE ApplySum(oplist, i + 1, v, VAdd(acc, ApplyOp(oplist[i], v)))

RECURSIVE ToVector(_)
\* a state vector that leaves the coefficient of a list or dictionary primitive out
ToVectorUnscaled(s) ==
  CASE s.t = "VectorStateFn" -> s.prim
    [] s.t = "DictStateFn" -> DictToVec(s.prim)
    [] s.t = "CircuitStateFn" -> VScale(RunCircuit(ZeroVec(s.prim.n), s.prim), s.coeff.num)
    [] s.t = "TensoredOp" ->
         VScale(Kron(ToVector(s.oplist[1]), ToVector(s.oplist[2])), s.coeff.num)
    [] s.t = "ComposedOp" ->
         VScale(ApplyChain(s.oplist, Len(s.oplist) - 1, 1, ToVector(s.oplist[Len(s.oplist)])),
                s.coeff.num)
    [] OTHER -> ZeroVec(0)

\* the state vector of a state function (or of the transpose of a measurement)
ToVector(s) ==
  CASE s.t = "VectorStateFn" -> VScale(s.prim, s.coeff.num)
    [] s.t = "DictStateFn" -> VScale(DictToVec(s.prim), s.coeff.num)
    [] s.t = "CircuitStateFn" -> VScale(RunCircuit(ZeroVec(s.prim.n), s.prim), s.coeff.num)
    [] s.t = "TensoredOp" ->
         VScale(Kron(ToVector(s.oplist[1]), ToVector(s.oplist[2])), s.coeff.num)
    [] s.t = "ComposedOp" ->
         VScale(ApplyChain(s.oplist, Len(s.oplist) - 1, 1, ToVector(s.oplist[Len(s.oplist)])),
                s.coeff.num)
    [] OTHER -> ZeroVec(0)

RECURSIVE IsStateLike(_)
\* denotes a state vector
IsStateLike(s) ==
  CASE s.t \in {"VectorStateFn", "DictStateFn", "CircuitStateFn"} -> ~s.meas
    [] s.t = "TensoredOp" -> IsStateLike(s.oplist[1]) /\ IsStateLike(s.oplist[2])
    [] s.t = "ComposedOp" ->
         IsStateLike(s.oplist[Len(s.oplist)])
         /\ \A i \in 1..(Len(s.oplist) - 1) : s.oplist[i].t \in OperatorTypes
    [] OTHER -> FALSE

IsMeasurement(m) == m.t \in StateFnTypes /\ m.meas

RECURSIVE EvalOn(_, _)
RECURSIVE EvalSum(_, _, _, _)
\* c x, the product skipped for c = 1
ScaleBy(c, x) == IF c = SOne THEN x ELSE SMul(c, x)

\* the number a measurement, or a lazy expression that starts with one, gives on v
\* (the first test has v computed before the measurement is applied to it)
EvalOn(m, v) ==
  IF v.n < 0 THEN SZero
  ELSE CASE m.t \in {"DictStateFn", "VectorStateFn"} ->
              LET w == ToVector(m)
              IN Inner(Vec(w.n, w.k, [i \in 1..Len(w.amp) |->
                                         Amp(w.amp[i].re, 0 - w.amp[i].im)]), v)
         [] m.t = "OperatorStateFn" ->
              LET u == ApplyOp(m.prim, v)
              IN IF u.n < 0 THEN SZero ELSE ScaleBy(m.coeff.num, Inner(v, u))
         [] m.t = "ComposedOp" ->
              ScaleBy(m.coeff.num,
                      EvalOn(m.oplist[1], ApplyChain(m.oplist, Len(m.oplist), 2, v)))
         [] m.t = "SummedOp" -> ScaleBy(m.coeff.num, EvalSum(m.oplist, 1, v, SZero))
         [] OTHER -> SZero

\* acc + oplist[i] on v + ... + oplist[m] on v
EvalSum(oplist, i, v, acc) ==
  IF i > Len(oplist) \/ acc.k < 0 THEN acc
  ELSE EvalSum(oplist, i + 1, v, SAdd(acc, EvalOn(oplist[i], v)))

\* a.eval(front); front is None, a basis label or a state function
Eval(a, front) ==
  CASE a.t \in StateFnTypes /\ ~a.meas /\ a.t # "OperatorStateFn" /\ front.t = "label" ->
         IF Len(front.bits) = NumQubits(a)
         THEN PyFloat(VAt(ToVector(a), LabelIndex(front.bits)))
         ELSE PyError("ValueError")
    [] a.t = "CircuitStateFn" /\ ~a.meas /\ front.t = "None" ->
         MkStateFn("VectorStateFn", NormV(ToVector(a)), CoefOne, FALSE)
    [] a.t \in {"VectorStateFn", "DictStateFn"} /\ ~a.meas /\ front.t = "None" -> a
    [] IsMeasurement(a) /\ IsStateLike(front) ->
         IF NumQubits(a) = NumQubits(front)
         THEN PyFloat(EvalOn(a, ToVector(front)))
         ELSE PyError("ValueError")
    [] a.t = "ComposedOp" /\ front.t = "None" /\ IsStateLike(a) ->
         MkStateFn("VectorStateFn", NormV(ToVector(a)), CoefOne, FALSE)
    [] a.t = "ComposedOp" /\ front.t = "None" /\ IsMeasurement(a.oplist[1])
       /\ IsStateLike(a.oplist[Len(a.oplist)]) ->
         PyFloat(EvalOn([a EXCEPT !.oplist = SubSeq(a.oplist, 1, Len(a.oplist) - 1)],
                        ToVector(a.oplist[Len(a.oplist)])))
    [] a.t \in {"ComposedOp", "SummedOp"} /\ IsStateLike(front) ->
         PyFloat(EvalOn(a, ToVector(front)))
    [] OTHER -> PyError("TypeError")

\* a.sample(): label -> probability, for the labels of non-zero probability (the
\* frequencies the sampler's shots converge to; exact when one label has probability 1)
Sample(a) ==
  IF a.t \in {"VectorStateFn", "DictStateFn"} /\ ~a.meas
  THEN LET v == ToVector(a)
           nz(i) == v.amp[i + 1].re # 0 \/ v.amp[i + 1].im # 0
           idx == SelectSeq([i \in 1..Len(v.amp) |-> i - 1], nz)
       IN PyDict([j \in 1..Len(idx) |-> PyLabel(IndexLabel(idx[j], v.n))],
                 [j \in 1..Len(idx) |-> PyFloat(SAbs2(VAt(v, idx[j])))])
  ELSE PyError("TypeError")

(***************************************************************************)
(* PauliExpectation: grouping and the change to the diagonal basis.        *)
(***************************************************************************)
\* a grouper that lets any two Pauli strings share a group
ShareAnyGroup(p, q) == TRUE

\* the two Pauli strings commute qubit by qubit: at every position the letters are
\* equal or one of them is I
QubitWiseCommute(p, q) ==
  \A i \in 1..Len(p) : p[i] = q[i] \/ p[i] = "I" \/ q[i] = "I"

\* the two Pauli strings commute as operators: they differ, with both letters not I,
\* at an even number of positions
PauliCommute(p, q) ==
  Cardinality({i \in 1..Len(p) : p[i] # q[i] /\ p[i] # "I" /\ q[i] # "I"}) % 2 = 0

\* the terms that may not share a group with term i
Conflicts(terms, i) ==
  {j \in 1..Len(terms) : j # i /\ ~QubitWiseCommute(terms[i].prim, terms[j].prim)}

RECURSIVE LargestFirst(_, _)
\* the terms not yet in done, by falling number of conflicts, earlier term first
LargestFirst(terms, done) ==
  LET rest == (1..Len(terms)) \ {done[j] : j \in 1..Len(done)}
  IN IF rest = {} THEN done
     ELSE LET best == CHOOSE i \in rest :
                        \A j \in rest :
                          Cardinality(Conflicts(terms, i)) > Cardinality(Conflicts(terms, j))
                          \/ (Cardinality(Conflicts(terms, i)) = Cardinality(Conflicts(terms, j))
                              /\ i <= j)
          IN LargestFirst(terms, Append(done, best))

RECURSIVE GreedyColor(_, _, _)
\* colors[j] is the colour of term order[j]: the least one no conflicting term has
GreedyColor(terms, order, colors) ==
  IF Len(colors) = Len(order) THEN colors
  ELSE LET i == order[Len(colors) + 1]
           used == {colors[j] : j \in {x \in 1..Len(colors) : order[x] \in Conflicts(terms, i)}}
           c == CHOOSE c \in 0..Len(terms) : c \notin used /\ \A d \in 0..(c - 1) : d \in used
       IN GreedyColor(terms, order, Append(colors, c))

RECURSIVE FirstUse(_, _, _)
\* the colours in the order of their first use
FirstUse(colors, j, acc) ==
  IF j > Len(colors) THEN acc
  ELSE FirstUse(colors, j + 1,
                IF \E x \in 1..Len(acc) : acc[x] = colors[j] THEN acc
                ELSE Append(acc, colors[j]))

\* AbelianGrouper: the terms of a SummedOp split into groups that commute qubit by qubit
GroupSubops(terms) ==
  LET order == LargestFirst(terms, <<>>)
      colors == GreedyColor(terms, order, <<>>)
      used == FirstUse(colors, 1, <<>>)
      pick(c) == LET has(j) == colors[j] = c
                     js == SelectSeq([j \in 1..Len(order) |-> j], has)
                 IN [x \in 1..Len(js) |-> terms[order[js[x]]]]
  IN [g \in 1..Len(used) |-> pick(used[g])]

\* the measurement basis of a group: per position the letter that is not I, if any
GroupBasis(group) ==
  [p \in 1..Len(group[1].prim) |->
     IF \E j \in 1..Len(group) : group[j].prim[p] # "I"
     THEN group[CHOOSE j \in 1..Len(group) : group[j].prim[p] # "I"].prim[p]
     ELSE "I"]

\* a conversion that keeps the letters of the Pauli operator
KeepLetters(op) == op

\* a Pauli operator in the diagonal basis: every letter that is not I becomes Z
Diagonal(op) ==
  MkOp("PauliOp", [p \in 1..Len(op.prim) |-> IF op.prim[p] = "I" THEN "I" ELSE "Z"], op.coeff)

RECURSIVE RotationGates(_, _)
\* the post-rotation for qubits 0..q-1 of the basis: H for X, S-dagger then H for Y
RotationGates(basis, q) ==
  IF q = 0 THEN <<>>
  ELSE LET letter == basis[Len(basis) - (q - 1)]
       IN RotationGates(basis, q - 1)
          \o (CASE letter = "X" -> <<Ins("h", <<q - 1>>)>>
                [] letter = "Y" -> <<Ins("sdg", <<q - 1>>), Ins("h", <<q - 1>>)>>
                [] OTHER -> <<>>)

\* the operator that rotates the basis to the diagonal one
BasisChange(basis) ==
  IF \A p \in 1..Len(basis) : basis[p] \in {"I", "Z"}
  THEN MkOp("PauliOp", [p \in 1..Len(basis) |-> "I"], CoefOne)
  ELSE MkOp("CircuitOp", [n |-> Len(basis), gates |-> RotationGates(basis, Len(basis))],
            CoefOne)

\* one group as a diagonal measurement composed with its post-rotation
ConvertGroup(group, coeff) ==
  MkListOp("ComposedOp",
           <<MkStateFn("OperatorStateFn",
                       MkListOp("SummedOp",
                                [j \in 1..Len(group) |-> Diagonal(group[j])],
                                CoefOne, TRUE),
                       coeff, TRUE),
             BasisChange(GroupBasis(group))>>,
           CoefOne, FALSE)

IsPauliSum(op) ==
  op.t = "SummedOp" /\ \A j \in 1..Len(op.oplist) : op.oplist[j].t = "PauliOp"

\* the measurement of a Pauli observable in the diagonal basis
ConvertMeasurement(m) ==
  CASE m.prim.t = "PauliOp" ->
         MkListOp("ComposedOp",
                  <<MkStateFn("OperatorStateFn", Diagonal(m.prim), m.coeff, TRUE),
                    BasisChange(m.prim.prim)>>,
                  CoefOne, FALSE)
    [] IsPauliSum(m.prim) ->
         LET groups == GroupSubops(m.prim.oplist)
             c == CoefMul(m.coeff, m.prim.coeff)
         IN IF Len(groups) = 1 THEN ConvertGroup(groups[1], c)
            ELSE MkListOp("SummedOp",
                          [g \in 1..Len(groups) |-> ConvertGroup(groups[g], CoefOne)],
                          c, FALSE)
    [] OTHER -> PyError("TypeError")

\* PauliExpectation().convert(operator): measurements of observables are replaced,
\* inside a list operator too; everything else is kept
PauliExpectationConvert(op) ==
  CASE op.t = "OperatorStateFn" /\ op.meas -> ConvertMeasurement(op)
    [] op.t \in ListOpTypes ->
         [op EXCEPT !.oplist =
            [j \in 1..Len(op.oplist) |->
               IF op.oplist[j].t = "OperatorStateFn" /\ op.oplist[j].meas
               THEN ConvertMeasurement(op.oplist[j]) ELSE op.oplist[j]]]
    [] op.t \in (OperatorTypes \cup StateFnTypes) -> op
    [] OTHER -> PyError("TypeError")

(***************************************************************************)
(* Evolution, parameter binding and sampling, as far as the notebook's     *)
(* example uses them.                                                      *)
(***************************************************************************)
\* the Trotter circuit of e^(-i c H): one Pauli rotation per term of H
TrotterCircuit(ev) ==
  LET h == ev.prim
      terms == IF h.t = "SummedOp" THEN h.oplist ELSE <<h>>
      n == NumQubits(h)
  IN MkOp("CircuitOp",
          [n |-> n,
           gates |-> [j \in 1..Len(terms) |->
                        [g |-> "exp_i", qs |-> [q \in 1..n |-> q - 1],
                         pauli |-> terms[j].prim,
                         par |-> CoefMul(h.coeff, terms[j].coeff).par]]],
          ev.coeff)

\* PauliTrotterEvolution(trotter_mode=Suzuki()).convert(operator)
PauliTrotterConvert(op) ==
  CASE op.t = "EvolvedOp" -> TrotterCircuit(op)
    [] op.t \in ListOpTypes ->
         [op EXCEPT !.oplist = [j \in 1..Len(op.oplist) |->
                                  IF op.oplist[j].t = "EvolvedOp"
                                  THEN TrotterCircuit(op.oplist[j]) ELSE op.oplist[j]]]
    [] op.t \in (OperatorTypes \cup StateFnTypes) -> op
    [] OTHER -> PyError("TypeError")

\* operator.bind_parameters({parameter: [values]}): one bound copy of the operator per
\* value (the copies are kept as the operator and the list of values)
BindParameters(op, binding) ==
  IF op.t \in (OperatorTypes \cup StateFnTypes) /\ binding.t = "dict"
     /\ Len(binding.keys) = 1 /\ binding.keys[1].t = "Parameter"
     /\ binding.vals[1].t = "list"
  THEN [t |-> "ListOp", of |-> op, par |-> binding.keys[1].name,
        values |-> [j \in 1..Len(binding.vals[1].items) |-> binding.vals[1].items[j].v]]
  ELSE PyError("TypeError")

RECURSIVE IsMeasurementLike(_)
\* a measurement, or a lazy sum or composition that evaluates to a number on a state
IsMeasurementLike(m) ==
  CASE m.t \in StateFnTypes -> m.meas
    [] m.t = "ComposedOp" -> IsMeasurementLike(m.oplist[1])
    [] m.t = "SummedOp" -> \A j \in 1..Len(m.oplist) : IsMeasurementLike(m.oplist[j])
    [] OTHER -> FALSE

\* the expectation value the sampler's estimate converges to, for the parameter value
\* val; with val = 0 every rotation of a Trotter circuit is the identity, and for other
\* values the number is not computed (it needs sines and cosines)
ExpectationAt(op, val) ==
  IF val = 0 /\ op.t = "ComposedOp" /\ IsMeasurementLike(op.oplist[1])
     /\ IsStateLike(op.oplist[Len(op.oplist)])
  THEN [t |-> "estimate", known |-> TRUE,
        mean |-> EvalOn([op EXCEPT !.oplist = SubSeq(op.oplist, 1, Len(op.oplist) - 1)],
                        ToVector(op.oplist[Len(op.oplist)]))]
  ELSE [t |-> "estimate", known |-> FALSE, mean |-> SZero]

\* CircuitSampler(backend).convert(operator): the circuits replaced by sampled states
SamplerConvert(sampler, op) ==
  IF sampler.t = "CircuitSampler" /\ op.t = "ListOp"
  THEN [t |-> "SampledListOp", of |-> op, backend |-> sampler.backend]
  ELSE PyError("TypeError")

\* sampled.eval(): one estimate per bound parameter value
EvalSampled(s) ==
  PyList([j \in 1..Len(s.of.values) |-> ExpectationAt(s.of.of, s.of.values[j])])

(***************************************************************************)
(* Conversions between Pauli strings and the z, x arrays of Pauli(z, x).   *)
(***************************************************************************)
\* Pauli(z=[...], x=[...]): entry q of the arrays is qubit q; the label is read from
\* the highest qubit down
PauliFromZX(z, x) ==
  [p \in 1..Len(z) |->
     LET q == Len(z) - p + 1
     IN CASE z[q] /\ x[q] -> "Y"
          [] z[q] -> "Z"
          [] x[q] -> "X"
          [] OTHER -> "I"]

PauliZ(label) == [q \in 1..Len(label) |-> label[Len(label) - q + 1] \in {"Z", "Y"}]
PauliX(label) == [q \in 1..Len(label) |-> label[Len(label) - q + 1] \in {"X", "Y"}]

(***************************************************************************)
(* numpy                                                                   *)
(***************************************************************************)
RECURSIVE IsPow2(_)
IsPow2(m) == m = 1 \/ (m > 1 /\ m % 2 = 0 /\ IsPow2(m \div 2))

\* np.sqrt(m) for a power of two m
NpSqrt(a) ==
  IF a.t = "int" /\ a.v >= 1 /\ IsPow2(a.v)
  THEN PyFloat(NormS(Sc(a.v, 0, Log2(a.v))))
  ELSE PyError("NotModelled")

ToScalar(a) == IF a.t = "int" THEN Sc(a.v, 0, 0) ELSE a.s

\* a / b for a real b = 2^j / sqrt(2)^k
Divide(a, b) ==
  IF a.t \in {"int", "float"} /\ b.t \in {"int", "float"}
  THEN LET y == ToScalar(b)
       IN IF y.im = 0 /\ y.re >= 1 /\ IsPow2(y.re) /\ 2 * Log2(y.re) >= y.k
          THEN PyFloat(NormS(Sc(ToScalar(a).re, ToScalar(a).im,
                                ToScalar(a).k + 2 * Log2(y.re) - y.k)))
          ELSE IF y.re = 0 /\ y.im = 0 THEN PyError("ZeroDivisionError")
          ELSE PyError("NotModelled")
  ELSE PyError("TypeError")

(***************************************************************************)
(* The calls the cells make, by name.  A method or attribute is named with *)
(* a leading dot and takes its receiver as first argument; an operator     *)
(* symbol is named by itself.                                              *)
(***************************************************************************)
PyBool(b) == [t |-> "bool", v |-> b]

\* np.real of the list of estimates
NpReal(x) ==
  IF x.t = "list"
  THEN PyList([j \in 1..Len(x.items) |->
                 [x.items[j] EXCEPT !.mean = Sc(@.re, 0, @.k)]])
  ELSE PyError("TypeError")

\* state_fn.primitive
Primitive(a) ==
  CASE a.t = "CircuitStateFn" -> MkCircuit(a.prim.n, a.prim.gates)
    [] a.t = "CircuitOp" -> MkCircuit(a.prim.n, a.prim.gates)
    [] OTHER -> PyError("NotModelled")

\* converter.convert(operator)
Convert(conv, op) ==
  CASE conv.t = "PauliExpectation" -> PauliExpectationConvert(op)
    [] conv.t = "PauliTrotterEvolution" -> PauliTrotterConvert(op)
    [] conv.t = "CircuitSampler" -> SamplerConvert(conv, op)
    [] OTHER -> PyError("AttributeError")

\* circuit.h(q), circuit.z(q): the circuit with the gate appended
AppendGate(qc, g, q) ==
  IF qc.t = "QuantumCircuit" /\ q.t = "int" /\ q.v >= 0 /\ q.v < qc.n
  THEN MkCircuit(qc.n, Append(qc.gates, Ins(g, <<q.v>>)))
  ELSE PyError("CircuitError")

Mutators == {".h", ".z"}

GateOf(fn) == IF fn = ".h" THEN "h" ELSE "z"

\* the value a call returns
Apply(fn, a) ==
  CASE fn = "StateFn" ->
         IF Len(a) = 1 THEN StateFn(a[1], CoefOne, FALSE)
         ELSE IF a[2].t \in {"int", "float"}
              THEN StateFn(a[1], Coef(ToScalar(a[2]), ""), FALSE)
              ELSE PyError("TypeError")
    [] fn = "QuantumCircuit" ->
         IF a[1].t = "int" THEN MkCircuit(a[1].v, <<>>) ELSE PyError("TypeError")
    [] fn \in Mutators ->
         IF IsError(AppendGate(a[1], GateOf(fn), a[2]))
         THEN AppendGate(a[1], GateOf(fn), a[2]) ELSE [t |-> "InstructionSet"]
    [] fn = "CircuitOp" ->
         IF a[1].t = "QuantumCircuit"
         THEN MkOp("CircuitOp", [n |-> a[1].n, gates |-> a[1].gates], CoefOne)
         ELSE PyError("TypeError")
    [] fn = ".array" ->
         [t |-> "ndarray",
          rows |-> [i \in 1..Len(a[2].items) |->
                      [j \in 1..Len(a[2].items[i].items) |-> a[2].items[i].items[j].v]]]
    [] fn = "MatrixOp" ->
         IF a[1].t = "ndarray" THEN MkOp("MatrixOp", a[1].rows, CoefOne)
         ELSE PyError("TypeError")
    [] fn = "Pauli" ->
         [t |-> "Pauli",
          label |-> PauliFromZX([i \in 1..Len(a[1].items) |-> a[1].items[i].v],
                                [i \in 1..Len(a[2].items) |-> a[2].items[i].v])]
    [] fn = "PauliOp" ->
         IF a[1].t = "Pauli" THEN MkOp("PauliOp", a[1].label, CoefOne)
         ELSE PyError("TypeError")
    [] fn = "Parameter" -> [t |-> "Parameter", name |-> a[1].s]
    [] fn = "PauliExpectation" -> [t |-> "PauliExpectation"]
    [] fn = "Suzuki" -> [t |-> "Suzuki"]
    [] fn = "PauliTrotterEvolution" -> [t |-> "PauliTrotterEvolution", mode |-> a[1].t]
    [] fn = ".get_backend" -> [t |-> "backend", name |-> a[2].s]
    [] fn = "CircuitSampler" ->
         IF a[1].t = "backend" THEN [t |-> "CircuitSampler", backend |-> a[1].name]
         ELSE PyError("TypeError")
    [] fn = ".convert" -> Convert(a[1], a[2])
    [] fn = ".bind_parameters" -> BindParameters(a[1], a[2])
    [] fn = ".eval" ->
         IF a[1].t = "SampledListOp" THEN EvalSampled(a[1])
         ELSE IF a[1].t \in (OperatorTypes \cup StateFnTypes)
              THEN Eval(a[1], IF Len(a) = 1 THEN PyNone ELSE a[2])
              ELSE PyError("AttributeError")
    [] fn = ".sample" -> Sample(a[1])
    [] fn = ".compose" -> Compose(a[1], a[2])
    [] fn = "@" -> MatMul(a[1], a[2])
    [] fn = ".tensor" -> Tensor(a[1], a[2])
    [] fn = "^" -> Xor(a[1], a[2])
    [] fn = "+" -> Add(a[1], a[2])
    [] fn = "*" -> Mul(a[1], a[2])
    [] fn = "/" -> Divide(a[1], a[2])
    [] fn = ".adjoint" -> Adjoint(a[1])
    [] fn = ".exp_i" -> ExpI(a[1])
    [] fn = ".primitive" -> Primitive(a[1])
    [] fn = ".draw" -> [t |-> "drawing", of |-> a[1]]
    [] fn = ".sqrt" -> NpSqrt(a[2])
    [] fn = ".real" -> NpReal(a[2])
    [] fn = "type" -> PyType(a[1].t)
    [] fn = "repr" -> [t |-> "repr", of |-> a[1]]
    [] fn = "str" -> [t |-> "text", of |-> a]
    [] fn = "range" ->
         IF a[1].t = "int" THEN PyList([i \in 1..a[1].v |-> PyInt(i - 1)])
         ELSE PyError("TypeError")
    [] fn = "list" -> IF a[1].t = "list" THEN a[1] ELSE PyError("TypeError")
    [] fn = "[]" -> PyList(a)
    [] fn = "{}" ->
         PyDict([i \in 1..(Len(a) \div 2) |-> a[2 * i - 1]],
                [i \in 1..(Len(a) \div 2) |-> a[2 * i]])
    [] OTHER -> PyError("NotModelled")

\* a library whose multiplication writes the product into its right operand
CallEffectInPlace(h, fn, refs, a, res) ==
  IF fn = "*"
  THEN [heap |-> [h EXCEPT ![refs[2]] = res], ref |-> refs[2]]
  ELSE [heap |-> Append(h, res), ref |-> Len(h) + 1]

\* the heap after a call and the reference of the result: the result is a new object;
\* a circuit method changes its receiver in place, every other call leaves its
\* operands as they were
CallEffect(h, fn, refs, a, res) ==
  IF fn \in Mutators
  THEN [heap |-> Append([h EXCEPT ![refs[1]] = AppendGate(a[1], GateOf(fn), a[2])], res),
        ref |-> Len(h) + 1]
  ELSE [heap |-> Append(h, res), ref |-> Len(h) + 1]

(***************************************************************************)
(* The cells as syntax trees, and their interpreter.                       *)
(*   expressions: a name, a literal, or an application of a call (see      *)
(*   Apply) to argument expressions; callee is the name that must be bound *)
(*   for the call to be made ("" for methods, operators and builtins).     *)
(*   statements: assignment, expression (shown when it ends the cell),     *)
(*   print, for loop, import, magic.                                       *)
(***************************************************************************)
N(id) == [e |-> "name", id |-> id]
L(val) == [e |-> "lit", val |-> val]
A(fn, args) == [e |-> "app", fn |-> fn, callee |-> "", args |-> args]
F(fn, args) == [e |-> "app", fn |-> fn, callee |-> fn, args |-> args]

Assign(target, value) == [s |-> "assign", target |-> target, value |-> value]
Show(value) == [s |-> "expr", value |-> value, show |-> TRUE]
Do(value) == [s |-> "expr", value |-> value, show |-> FALSE]
PrintS(value) == [s |-> "print", value |-> value]
For(var, iter, body) == [s |-> "for", var |-> var, iter |-> iter, body |-> body]
Import(module, names) == [s |-> "import", module |-> module, names |-> names]
Magic(name) == [s |-> "magic", name |-> name]

\* what `from qiskit.aqua.operators import *` binds, as far as the cells use it
OperatorFlowNames ==
  <<"StateFn", "CircuitOp", "MatrixOp", "PauliOp", "PauliExpectation",
    "PauliTrotterEvolution", "Suzuki", "CircuitSampler",
    "X", "Y", "Z", "I", "CX", "S", "H", "T", "Swap", "CZ",
    "Zero", "One", "Plus", "Minus">>

\* the object an import binds to the name
ImportValue(name) ==
  CASE name = "X" -> X [] name = "Y" -> Y [] name = "Z" -> Z [] name = "I" -> I
    [] name = "CX" -> CX [] name = "S" -> S [] name = "H" -> H [] name = "T" -> T
    [] name = "Swap" -> Swap [] name = "CZ" -> CZ
    [] name = "Zero" -> Zero [] name = "One" -> One
    [] name = "Plus" -> Plus [] name = "Minus" -> Minus
    [] OTHER -> Builtin(name)

\* every name a cell binds or reads
Names ==
  {OperatorFlowNames[i] : i \in 1..Len(OperatorFlowNames)}
  \cup {"BasicAer", "QuantumCircuit", "Parameter", "Pauli", "np", "qiskit",
        "amplitudes", "normalization_coefficient", "psi_minus", "mapping",
        "psi_minus_dict", "qc", "psi_minus_qc", "primitive", "coeff", "bell", "basis",
        "uniform", "qc_hadamard", "op_hadamard", "matrix_x", "op_x", "op_x_terra",
        "hamiltonian", "evolution_param", "evolution_op", "hamiltonian_meas",
        "hamiltonian2", "hamiltonian2_meas", "evo_and_meas", "trotterized_op",
        "diagonalized_meas_op", "time_array", "expectations", "sampler",
        "sampled_expectations", "sampled_energies"}

RECURSIVE CallsLibrary(_)
\* the expression makes a call (building a list or dict display is not one)
CallsLibrary(e) ==
  e.e = "app"
  /\ (e.fn \notin {"[]", "{}", "str"}
      \/ \E i \in 1..Len(e.args) : CallsLibrary(e.args[i]))

\* a statement in which a library call can fail
Fallible(st) ==
  CASE st.s \in {"assign", "expr", "print"} -> CallsLibrary(st.value)
    [] st.s \in {"import", "magic"} -> TRUE
    [] OTHER -> FALSE

(***************************************************************************)
(* A cell is run as a sequence of instructions over a stack of references: *)
(* load a name, allocate a literal, look a callee up, call with the top n  *)
(* references, store, show, print, loop.  "begin" opens a statement in     *)
(* which a library call can fail.                                          *)
(***************************************************************************)
RECURSIVE Compile(_)
RECURSIVE CompileAll(_, _, _)

\* the instructions of es[i..], one expression after the other
CompileAll(es, i, acc) ==
  IF i > Len(es) THEN acc ELSE CompileAll(es, i + 1, acc \o Compile(es[i]))

\* callee looked up first, then the arguments left to right, then the call
Compile(e) ==
  CASE e.e = "name" -> <<[op |-> "load", id |-> e.id]>>
    [] e.e = "lit" -> <<[op |-> "const", val |-> e.val]>>
    [] OTHER ->
         CompileAll(e.args, 1,
                    IF e.callee = "" THEN <<>> ELSE <<[op |-> "need", id |-> e.callee]>>)
         \o <<[op |-> "call", fn |-> e.fn, n |-> Len(e.args)]>>

RECURSIVE CompileBlock(_, _, _)

CompileStmt(st, body) ==
  (IF Fallible(st) THEN <<[op |-> "begin"]>> ELSE <<>>)
  \o (CASE st.s = "assign" -> Compile(st.value) \o <<[op |-> "store", id |-> st.target]>>
        [] st.s = "expr" ->
             Compile(st.value) \o <<[op |-> IF st.show THEN "show" ELSE "drop"]>>
        [] st.s = "print" -> Compile(st.value) \o <<[op |-> "print"]>>
        [] st.s = "for" -> Compile(st.iter) \o <<[op |-> "for", var |-> st.var, body |-> body]>>
        [] st.s = "import" -> <<[op |-> "import", names |-> st.names]>>
        [] OTHER -> <<[op |-> "magic", name |-> st.name]>>)

\* the instructions of the statements i.. of a block
CompileBlock(stmts, i, acc) ==
  IF i > Len(stmts) THEN acc
  ELSE CompileBlock(stmts, i + 1,
                    acc \o CompileStmt(stmts[i],
                                       IF stmts[i].s = "for"
                                       THEN CompileBlock(stmts[i].body, 1, <<>>)
                                       ELSE <<>>))

\* the interpreter's state: bindings (name -> heap reference, 0 when unbound), heap,
\* stack, outputs and calls of the running cell, the raised error ("" when none), and
\* the number of fallible statements still to start before the injected failure
\* (0: none)
Kernel(n, h, fuel) ==
  [ns |-> n, heap |-> h, stack |-> <<>>, outs |-> <<>>, calls |-> <<>>, err |-> "",
   fuel |-> fuel, injected |-> FALSE]

Raise(K, kind) == [K EXCEPT !.err = kind]

Top(K) == K.stack[Len(K.stack)]

Pop(K, n) == SubSeq(K.stack, 1, Len(K.stack) - n)

\* import: every name bound to a new object holding what the module exports
BindAll(names, K) ==
  [K EXCEPT !.heap = @ \o [i \in 1..Len(names) |-> ImportValue(names[i])],
            !.ns = [x \in Names |->
                      IF \E i \in 1..Len(names) : names[i] = x
                      THEN Len(K.heap) + (CHOOSE i \in 1..Len(names) : names[i] = x)
                      ELSE K.ns[x]]]

\* the element of a one-element set: {e(x) : x \in {v}} is e with v evaluated once
Only(set) == CHOOSE x \in set : TRUE

\* the kernel after a call returned: the result pushed and the call logged
Returned(fn, n, K, refs, eff) ==
  [K EXCEPT !.heap = eff.heap,
            !.stack = Append(Pop(K, n), eff.ref),
            !.calls = Append(@, [fn |-> fn, args |-> refs, res |-> eff.ref,
                                 hlen |-> Len(K.heap)])]

\* call fn with the top n references
Call(fn, n, K) ==
  LET refs == SubSeq(K.stack, Len(K.stack) - n + 1, Len(K.stack))
      vals == [i \in 1..n |-> K.heap[refs[i]]] \o <<>>
  IN Only({IF IsError(res) THEN Raise(K, res.kind)
           ELSE Only({Returned(fn, n, K, refs, eff) :
                        eff \in {CallEffect(K.heap, fn, refs, vals, res)}}) :
           res \in {Apply(fn, vals)}})

RECURSIVE Run(_, _, _, _)
RECURSIVE RunFor(_, _, _, _)

\* one instruction
Step(ins, K) ==
  CASE ins.op = "begin" ->
         IF K.fuel = 1
         THEN [K EXCEPT !.err = "LibraryError", !.fuel = 0, !.injected = TRUE]
         ELSE IF K.fuel > 1 THEN [K EXCEPT !.fuel = @ - 1] ELSE K
    [] ins.op = "load" ->
         IF K.ns[ins.id] = 0 THEN Raise(K, "NameError")
         ELSE [K EXCEPT !.stack = Append(@, K.ns[ins.id])]
    [] ins.op = "const" ->
         [K EXCEPT !.heap = Append(@, ins.val), !.stack = Append(@, Len(K.heap) + 1)]
    [] ins.op = "need" -> IF K.ns[ins.id] = 0 THEN Raise(K, "NameError") ELSE K
    [] ins.op = "call" -> Call(ins.fn, ins.n, K)
    [] ins.op = "store" -> [K EXCEPT !.ns[ins.id] = Top(K), !.stack = Pop(K, 1)]
    [] ins.op = "drop" -> [K EXCEPT !.stack = Pop(K, 1)]
    [] ins.op = "show" ->
         IF K.heap[Top(K)].t = "None" THEN [K EXCEPT !.stack = Pop(K, 1)]
         ELSE [K EXCEPT !.stack = Pop(K, 1),
                        !.outs = Append(@, [kind |-> "execute_result",
                                            val |-> K.heap[Top(K)]])]
    [] ins.op = "print" ->
         [K EXCEPT !.stack = Pop(K, 1),
                   !.outs = Append(@, [kind |-> "stream", val |-> K.heap[Top(K)]])]
    [] ins.op = "for" ->
         IF K.heap[Top(K)].t # "list" THEN Raise(K, "TypeError")
         ELSE RunFor(ins, K.heap[Top(K)].items, 1, [K EXCEPT !.stack = Pop(K, 1)])
    [] ins.op = "import" -> BindAll(ins.names, K)
    [] ins.op = "magic" ->
         [K EXCEPT !.outs = Append(@, [kind |-> "display_data",
                                       val |-> [t |-> "HTML", of |-> ins.name]])]
    [] OTHER -> Raise(K, "SyntaxError")

\* a run that goes on after an error
RunPastErrors(prog, lo, hi, K) ==
  IF lo > hi THEN K
  ELSE IF lo = hi THEN Step(prog[lo], K)
  ELSE Run(prog, ((lo + hi) \div 2) + 1, hi, Run(prog, lo, (lo + hi) \div 2, K))

\* the instructions lo..hi in order, up to the first error (run by halves)
Run(prog, lo, hi, K) ==
  IF K.err # "" \/ lo > hi THEN K
  ELSE IF lo = hi THEN Step(prog[lo], K)
  ELSE Run(prog, ((lo + hi) \div 2) + 1, hi, Run(prog, lo, (lo + hi) \div 2, K))

\* a loop that runs its body for the first item only
RunForOnce(ins, items, i, K) ==
  IF i > 1 \/ i > Len(items) \/ K.err # "" THEN K
  ELSE Run(ins.body, 1, Len(ins.body),
           [K EXCEPT !.heap = Append(@, items[i]), !.ns[ins.var] = Len(K.heap) + 1])

\* the loop body once per item, the loop variable bound to a new object for the item
RunFor(ins, items, i, K) ==
  IF i > Len(items) \/ K.err # "" THEN K
  ELSE RunFor(ins, items, i + 1,
              Run(ins.body, 1, Len(ins.body),
                  [K EXCEPT !.heap = Append(@, items[i]), !.ns[ins.var] = Len(K.heap) + 1]))

\* a cell run in the kernel with bindings n and heap h; fuel as in Kernel
ExecCell(cell, n, h, fuel) ==
  LET prog == CompileBlock(cell, 1, <<>>)
  IN Run(prog, 1, Len(prog), Kernel(n, h, fuel))

RECURSIVE CountFallible(_, _)
\* an upper bound of the fallible statements a run of the block executes
CountFallible(stmts, i) ==
  IF i > Len(stmts) THEN 0
  ELSE (IF stmts[i].s = "for"
        THEN Len(stmts[i].iter.args) * CountFallible(stmts[i].body, 1)
        ELSE IF Fallible(stmts[i]) THEN 1 ELSE 0)
       + CountFallible(stmts, i + 1)

(***************************************************************************)
(* The code cells of tutorials/operators/                                  *)
(* 01_getting_started_with_operators.ipynb, in file order.                 *)
(***************************************************************************)
Num(v) == L(PyInt(v))
Lab(bits) == L(PyLabel(bits))
Text(s) == L(PyStr(s))

Cell1 ==
  <<Import("qiskit", <<"BasicAer", "QuantumCircuit">>),
    Import("qiskit.aqua.operators", OperatorFlowNames),
    Import("qiskit.circuit", <<"Parameter">>),
    Import("qiskit.quantum_info", <<"Pauli">>),
    Import("numpy", <<"np">>)>>

Cell2 ==
  <<Assign("amplitudes", A("[]", <<Num(1), Num(-1)>>)),
    Assign("normalization_coefficient", A("/", <<Num(1), A(".sqrt", <<N("np"), Num(2)>>)>>)),
    Assign("psi_minus", F("StateFn", <<N("amplitudes"), N("normalization_coefficient")>>))>>

Cell3 ==
  <<PrintS(A("str", <<Text("The ket |0> is mapped to "),
                      A(".eval", <<N("psi_minus"), Lab(<<0>>)>>)>>)),
    PrintS(A("str", <<Text("The ket |1> is mapped to "),
                      A(".eval", <<N("psi_minus"), Lab(<<1>>)>>)>>))>>

Cell4 == <<Show(A("type", <<N("psi_minus")>>))>>

Cell5 ==
  <<Assign("mapping", A("{}", <<Lab(<<0>>), Num(1), Lab(<<1>>), Num(-1)>>)),
    Assign("psi_minus_dict", F("StateFn", <<N("mapping"), N("normalization_coefficient")>>)),
    Show(A("type", <<N("psi_minus_dict")>>))>>

Cell6 ==
  <<Assign("qc", F("QuantumCircuit", <<Num(1)>>)),
    Do(A(".h", <<N("qc"), Num(0)>>)),
    Do(A(".z", <<N("qc"), Num(0)>>)),
    Assign("psi_minus_qc", F("StateFn", <<N("qc")>>)),
    Show(A("type", <<N("psi_minus_qc")>>))>>

Cell7 ==
  <<PrintS(A("str", <<Text("'Minus' maps |0> to "),
                      A(".eval", <<N("Minus"), Lab(<<0>>)>>)>>)),
    PrintS(A("str", <<Text("'Minus' maps |1> to "),
                      A(".eval", <<N("Minus"), Lab(<<1>>)>>)>>))>>

Cell8 ==
  <<Assign("primitive", A("{}", <<Lab(<<0, 0>>), Num(1), Lab(<<1, 1>>), Num(1)>>)),
    Assign("coeff", A("/", <<Num(1), A(".sqrt", <<N("np"), Num(2)>>)>>)),
    Assign("bell", F("StateFn", <<N("primitive"), N("coeff")>>)),
    For("basis", A("[]", <<Lab(<<0, 0>>), Lab(<<0, 1>>), Lab(<<1, 0>>), Lab(<<1, 1>>)>>),
        <<PrintS(A("str", <<Text("'bell' maps |"), N("basis"), Text("> to "),
                            A(".eval", <<N("bell"), N("basis")>>)>>))>>)>>

Cell9 ==
  <<Assign("uniform", A("^", <<N("Plus"), Num(5)>>)),
    Show(A(".draw", <<A(".primitive", <<N("uniform")>>)>>))>>

Cell10 ==
  <<Assign("qc_hadamard", F("QuantumCircuit", <<Num(1)>>)),
    Do(A(".h", <<N("qc_hadamard"), Num(0)>>)),
    Assign("op_hadamard", F("CircuitOp", <<N("qc_hadamard")>>))>>

Cell11 ==
  <<Show(A(".sample", <<A(".eval", <<A("@", <<N("op_hadamard"), N("Minus")>>)>>)>>))>>

Cell12 ==
  <<Show(A(".sample", <<A(".eval", <<A(".compose", <<N("op_hadamard"), N("Minus")>>)>>)>>))>>

Cell13 ==
  <<Assign("matrix_x",
           A(".array", <<N("np"), A("[]", <<A("[]", <<Num(0), Num(1)>>),
                                           A("[]", <<Num(1), Num(0)>>)>>)>>)),
    Assign("op_x", F("MatrixOp", <<N("matrix_x")>>))>>

Cell14 == <<Show(A(".sample", <<A(".eval", <<A("@", <<N("op_x"), N("Zero")>>)>>)>>))>>

Cell15 == <<Show(A(".sample", <<A(".eval", <<A("@", <<N("op_x"), N("One")>>)>>)>>))>>

Cell16 ==
  <<Assign("op_x_terra",
           F("PauliOp", <<F("Pauli", <<A("[]", <<L(PyBool(FALSE))>>),
                                       A("[]", <<L(PyBool(TRUE))>>)>>)>>)),
    PrintS(A("repr", <<N("op_x_terra")>>))>>

Cell17 ==
  <<Assign("hamiltonian",
           A("+", <<A("+", <<A("^", <<N("X"), N("X")>>), A("^", <<N("Y"), N("Y")>>)>>),
                    A("^", <<N("Z"), N("Z")>>)>>)),
    PrintS(N("hamiltonian"))>>

Cell18 ==
  <<Assign("evolution_param", F("Parameter", <<Text("theta")>>)),
    Assign("evolution_op",
           A(".exp_i", <<A("*", <<N("evolution_param"), N("hamiltonian")>>)>>)),
    PrintS(N("evolution_op"))>>

Cell19 == <<PrintS(A("repr", <<N("evolution_op")>>))>>

Cell20 ==
  <<PrintS(A("str", <<Text("<0|: "), A(".adjoint", <<N("Zero")>>)>>)),
    PrintS(A("str", <<Text("<0|1>: "),
                      A(".eval", <<A(".adjoint", <<N("Zero")>>), N("One")>>)>>)),
    PrintS(A("str", <<Text("<0|+>: "),
                      A(".eval", <<A(".adjoint", <<N("Zero")>>), N("Plus")>>)>>)),
    PrintS(A("str", <<Text("<1|Z|+>: "),
                      A(".eval", <<A("@", <<A("@", <<A(".adjoint", <<N("One")>>), N("Z")>>),
                                            N("Plus")>>)>>)>>))>>

Cell21 ==
  <<Assign("hamiltonian_meas", A(".adjoint", <<F("StateFn", <<N("hamiltonian")>>)>>)),
    PrintS(A(".convert", <<F("PauliExpectation", <<>>), N("hamiltonian_meas")>>))>>

Cell22 ==
  <<Assign("hamiltonian2",
           A("+", <<A("^", <<N("I"), N("X")>>), A("^", <<N("X"), N("I")>>)>>)),
    Assign("hamiltonian2_meas", A(".adjoint", <<F("StateFn", <<N("hamiltonian2")>>)>>)),
    PrintS(A(".convert", <<F("PauliExpectation", <<>>), N("hamiltonian2_meas")>>))>>

Cell23 ==
  <<Assign("hamiltonian",
           A("+", <<A("+", <<A("^", <<N("X"), N("X")>>), A("^", <<N("Y"), N("Y")>>)>>),
                    A("^", <<N("Z"), N("Z")>>)>>)),
    Assign("bell", A("@", <<N("CX"), A("^", <<N("Plus"), N("Zero")>>)>>)),
    Assign("evolution_param", F("Parameter", <<Text("theta")>>)),
    Assign("evolution_op",
           A(".exp_i", <<A("*", <<N("evolution_param"), N("hamiltonian")>>)>>)),
    Assign("evo_and_meas",
           A("@", <<A("@", <<A(".adjoint", <<F("StateFn", <<N("hamiltonian")>>)>>),
                             N("evolution_op")>>),
                    N("bell")>>)),
    Assign("trotterized_op",
           A(".convert", <<F("PauliTrotterEvolution", <<F("Suzuki", <<>>)>>),
                           N("evo_and_meas")>>)),
    Assign("diagonalized_meas_op",
           A(".convert", <<F("PauliExpectation", <<>>), N("trotterized_op")>>)),
    Assign("time_array", A("list", <<A("range", <<Num(10)>>)>>)),
    Assign("expectations",
           A(".bind_parameters", <<N("diagonalized_meas_op"),
                                   A("{}", <<N("evolution_param"), N("time_array")>>)>>)),
    Assign("sampler",
           F("CircuitSampler", <<A(".get_backend", <<N("BasicAer"),
                                                     Text("qasm_simulator")>>)>>)),
    Assign("sampled_expectations", A(".convert", <<N("sampler"), N("expectations")>>)),
    Assign("sampled_energies", A(".eval", <<N("sampled_expectations")>>)),
    PrintS(A("str", <<Text("Sampled energies after Trotterization: "),
                      A(".real", <<N("np"), N("sampled_energies")>>)>>))>>

Cell24 ==
  <<Import("qiskit.tools.jupyter", <<"qiskit">>),
    Magic("qiskit_version_table"),
    Magic("qiskit_copyright")>>

FullCells ==
  <<Cell1, Cell2, Cell3, Cell4, Cell5, Cell6, Cell7, Cell8, Cell9, Cell10, Cell11, Cell12,
    Cell13, Cell14, Cell15, Cell16, Cell17, Cell18, Cell19, Cell20, Cell21, Cell22, Cell23,
    Cell24>>

(***************************************************************************)
(* The code cells of unnamed/part_000, the earlier draft, in file order.    *)
(***************************************************************************)
DraftCell1 ==
  <<Import("qiskit.aqua.operators", OperatorFlowNames),
    Import("qiskit", <<"QuantumCircuit">>),
    Import("qiskit.circuit", <<"Parameter">>),
    Import("numpy", <<"np">>)>>

DraftCell2 ==
  <<Assign("amplitudes", A("[]", <<Num(1), Num(-1)>>)),
    Assign("normalization_coefficient", A("/", <<Num(1), A(".sqrt", <<N("np"), Num(2)>>)>>)),
    Assign("psi_minus", F("StateFn", <<N("amplitudes"), N("normalization_coefficient")>>))>>

DraftCell3 ==
  <<PrintS(A("str", <<Text("The ket |0> is mapped to "),
                      A(".eval", <<N("psi_minus"), Lab(<<0>>)>>)>>)),
    PrintS(A("str", <<Text("The ket |1> is mapped to "),
                      A(".eval", <<N("psi_minus"), Lab(<<1>>)>>)>>))>>

DraftCell4 == <<Show(A("type", <<N("psi_minus")>>))>>

DraftCell5 ==
  <<Assign("mapping", A("{}", <<Lab(<<0>>), Num(1), Lab(<<1>>), Num(-1)>>)),
    Assign("psi_minus_dict", F("StateFn", <<N("mapping"), N("normalization_coefficient")>>)),
    Show(A("type", <<N("psi_minus_dict")>>))>>

DraftCell6 ==
  <<Assign("qc", F("QuantumCircuit", <<Num(1)>>)),
    Do(A(".h", <<N("qc"), Num(0)>>)),
    Do(A(".z", <<N("qc"), Num(0)>>)),
    Assign("psi_minus_qc", F("StateFn", <<N("qc")>>)),
    Show(A("type", <<N("psi_minus_qc")>>))>>

\* the draft's seventh cell evaluating Plus where the notebook evaluates Minus
DraftCell7OnPlus ==
  <<PrintS(A("str", <<Text("'Minus' maps |0> to "),
                      A(".eval", <<N("Plus"), Lab(<<0>>)>>)>>)),
    PrintS(A("str", <<Text("'Minus' maps |1> to "),
                      A(".eval", <<N("Plus"), Lab(<<1>>)>>)>>))>>

DraftCell7 ==
  <<PrintS(A("str", <<Text("'Minus' maps |0> to "),
                      A(".eval", <<N("Minus"), Lab(<<0>>)>>)>>)),
    PrintS(A("str", <<Text("'Minus' maps |1> to "),
                      A(".eval", <<N("Minus"), Lab(<<1>>)>>)>>))>>

DraftCell8 ==
  <<Assign("primitive", A("{}", <<Lab(<<0, 0>>), Num(1), Lab(<<1, 1>>), Num(1)>>)),
    Assign("coeff", A("/", <<Num(1), A(".sqrt", <<N("np"), Num(2)>>)>>)),
    Assign("bell", F("StateFn", <<N("primitive"), N("coeff")>>)),
    For("basis", A("[]", <<Lab(<<0, 0>>), Lab(<<0, 1>>), Lab(<<1, 0>>), Lab(<<1, 1>>)>>),
        <<PrintS(A("str", <<Text("'bell' maps |"), N("basis"), Text("> to "),
                            A(".eval", <<N("bell"), N("basis")>>)>>))>>)>>

DraftCell9 ==
  <<Assign("uniform", A("^", <<N("Plus"), Num(5)>>)),
    Show(A(".draw", <<A(".primitive", <<N("uniform")>>)>>))>>

DraftCell10 ==
  <<Assign("qc_hadamard", F("QuantumCircuit", <<Num(1)>>)),
    Do(A(".h", <<N("qc_hadamard"), Num(0)>>)),
    Assign("op_hadamard", F("CircuitOp", <<N("qc_hadamard")>>))>>

DraftCell11 ==
  <<Show(A(".sample", <<A(".eval", <<A("@", <<N("op_hadamard"), N("Minus")>>)>>)>>))>>

DraftCell12 ==
  <<Show(A(".sample", <<A(".eval", <<A(".compose", <<N("op_hadamard"), N("Minus")>>)>>)>>))>>

DraftCells ==
  <<DraftCell1, DraftCell2, DraftCell3, DraftCell4, DraftCell5, DraftCell6, DraftCell7,
    DraftCell8, DraftCell9, DraftCell10, DraftCell11, DraftCell12>>

\* the code cells of a notebook file
\* the code cells of a notebook file; a console session has none
CodeCells(file) ==
  CASE file = "full" -> FullCells
    [] file = "draft" -> DraftCells
    [] OTHER -> <<>>

Files == {"full", "draft"}

(***************************************************************************)
(* The kernel session: the cells of one notebook file run top to bottom in *)
(* a fresh kernel.  A library call may fail (at most MaxFaults times in a  *)
(* session); the cell then ends with an error and the session goes on with *)
(* the next cell.                                                          *)
(***************************************************************************)
Unbound == [x \in Names |-> 0]

\* the outputs a cell leaves below it: what it displayed, then the error if it raised
CellRecord(n, K) ==
  [count |-> n,
   items |-> IF K.err = "" THEN K.outs
             ELSE Append(K.outs, [kind |-> "error", val |-> PyError(K.err)])]

NoLib == [op |-> "none"]

\* the other notebook file
Other(file) == IF file = "full" THEN "draft" ELSE "full"

\* a second fresh kernel, in which the other file is run cell for cell without
\* failures, to compare the two files
FreshTwin == [ns |-> Unbound, heap |-> <<>>, outs |-> <<>>]

\* the twin kernel after the other file's cell at the cursor, if it has one
TwinStep(file, at, tw) ==
  IF at > Len(CodeCells(file)) THEN tw
  ELSE Only({[ns |-> K.ns, heap |-> K.heap, outs |-> Append(tw.outs, CellRecord(at, K))] :
               K \in {ExecCell(CodeCells(file)[at], tw.ns, tw.heap, 0)}})

(***************************************************************************)
(* Library calls on drawn operands: a console session in which no cell is  *)
(* run and one library call is made on operands drawn from the pools       *)
(* below.  lib holds the operands and, after the call, its result.         *)
(***************************************************************************)
PauliLetters == {"I", "X", "Y", "Z"}

\* the Pauli strings over two qubits
PauliStrings == {<<a, b>> : a, b \in PauliLetters}

\* sequences of 1..MaxTerms different Pauli strings
TermLists ==
  {s \in UNION {[1..m -> PauliStrings] : m \in 1..MaxTerms} :
     \A i, j \in 1..Len(s) : i # j => s[i] # s[j]}

RECURSIVE SumOf(_, _)
\* the observable s[1] + ... + s[m], built as the notebook builds (X^X) + (Y^Y)
SumOf(s, m) ==
  IF m = 1 THEN MkOp("PauliOp", s[1], CoefOne)
  ELSE Add(SumOf(s, m - 1), MkOp("PauliOp", s[m], CoefOne))

Observables == {SumOf(s, Len(s)) : s \in TermLists}

\* two-qubit states of every class, with real and with complex amplitudes
States2 ==
  {Xor(Zero, One),
   Xor(Plus, Minus),
   StateFn(PyDict(<<PyLabel(<<0, 0>>), PyLabel(<<1, 1>>)>>, <<PyInt(1), PyInt(1)>>),
           Coef(SInvSqrt2, ""), FALSE),
   StateFn(PyList(<<PyInt(0), PyInt(1), PyInt(1), PyInt(0)>>), Coef(SInvSqrt2, ""), FALSE),
   Compose(CX, Xor(Plus, Zero)),
   Compose(Xor(S, S), Xor(Plus, Minus)),
   Compose(Xor(S, I), Compose(CX, Xor(Zero, Plus)))}

\* one-qubit states and a two-qubit one
States1 ==
  {Zero, One, Plus, Minus,
   StateFn(PyList(<<PyInt(1), PyInt(-1)>>), Coef(SInvSqrt2, ""), FALSE),
   StateFn(PyDict(<<PyLabel(<<0, 0>>), PyLabel(<<1, 1>>)>>, <<PyInt(1), PyInt(1)>>),
           Coef(SInvSqrt2, ""), FALSE)}

\* operators and measurements to compose on the left
ComposeLeft ==
  {H, S, X, Z, CX, Xor(X, Z),
   MkOp("MatrixOp", <<<<0, 1>>, <<1, 0>>>>, CoefOne),
   Adjoint(One),
   Adjoint(StateFn(Add(X, Z), CoefOne, FALSE))}

\* state functions and an operator to compose on the right
ComposeRight == States1 \cup {Xor(Plus, Zero), Xor(Plus, Plus), Z}

\* primitives to wrap in a state function
Primitives ==
  {PyList(<<PyInt(1), PyInt(-1)>>),
   PyList(<<PyInt(0), PyInt(1), PyInt(1), PyInt(0)>>),
   PyDict(<<PyLabel(<<0>>), PyLabel(<<1>>)>>, <<PyInt(1), PyInt(-1)>>),
   PyDict(<<PyLabel(<<1, 0>>)>>, <<PyInt(1)>>),
   MkCircuit(1, <<Ins("h", <<0>>), Ins("z", <<0>>)>>),
   MkCircuit(2, <<>>),
   X, Xor(X, Y), H, CX, Add(Xor(X, X), Xor(Z, Z)), ExpI(Z),
   MkOp("MatrixOp", <<<<0, 1>>, <<1, 0>>>>, CoefOne),
   PyInt(1), PyNone, PyStr("0")}

\* list and dictionary primitives to read with .eval(label); two of the dictionaries
\* differ only in a zero entry
EvalPrimitives ==
  {PyList(<<PyInt(1), PyInt(-1)>>),
   PyList(<<PyInt(0), PyInt(2), PyInt(-1), PyInt(0)>>),
   PyDict(<<PyLabel(<<0>>), PyLabel(<<1>>)>>, <<PyInt(1), PyInt(-1)>>),
   PyDict(<<PyLabel(<<1>>)>>, <<PyInt(1)>>),
   PyDict(<<PyLabel(<<0>>), PyLabel(<<1>>)>>, <<PyInt(0), PyInt(1)>>),
   PyDict(<<PyLabel(<<0, 0>>), PyLabel(<<1, 1>>)>>, <<PyInt(1), PyInt(1)>>),
   PyDict(<<PyLabel(<<0, 1>>)>>, <<PyInt(3)>>)}

\* coefficients: 1, 1 / np.sqrt(2), -1, 1j / np.sqrt(2)
EvalCoeffs == {SOne, SInvSqrt2, Sc(-1, 0, 0), Sc(0, 1, 1)}

\* the basis labels of one and of two qubits
Labels == {<<a>> : a \in 0..1} \cup {<<a, b>> : a, b \in 0..1}

\* state functions to take the adjoint of, with real and with complex amplitudes
Measured ==
  {Zero, One,
   StateFn(PyList(<<PyInt(1), PyInt(-1)>>), Coef(SInvSqrt2, ""), FALSE),
   StateFn(PyDict(<<PyLabel(<<0>>), PyLabel(<<1>>)>>, <<PyInt(1), PyInt(2)>>),
           Coef(Sc(0, 1, 1), ""), FALSE),
   StateFn(PyDict(<<PyLabel(<<0, 0>>), PyLabel(<<1, 1>>)>>, <<PyInt(1), PyInt(1)>>),
           Coef(SInvSqrt2, ""), FALSE)}

\* state functions to measure
Fronts ==
  States1
  \cup {StateFn(PyDict(<<PyLabel(<<0>>), PyLabel(<<1>>)>>, <<PyInt(1), PyInt(-1)>>),
                Coef(Sc(0, 1, 1), ""), FALSE),
        StateFn(PyList(<<PyInt(0), PyInt(1), PyInt(1), PyInt(0)>>), Coef(SInvSqrt2, ""), FALSE)}

LibInputs ==
  {[op |-> "input", call |-> "convert", a |-> o, b |-> s] : o \in Observables, s \in States2}
  \cup {[op |-> "input", call |-> "compose", a |-> a, b |-> b] :
          a \in ComposeLeft, b \in ComposeRight}
  \cup {[op |-> "input", call |-> "tensor", a |-> a, b |-> b] :
          a \in States1, b \in States1 \cup {PyInt(m) : m \in 1..MaxPower}}
  \cup {[op |-> "input", call |-> "StateFn", a |-> p, b |-> PyNone] : p \in Primitives}
  \cup {[op |-> "input", call |-> "eval", a |-> p,
          b |-> [t |-> "args", coeff |-> PyFloat(c), label |-> PyLabel(l)]] :
          p \in EvalPrimitives, c \in EvalCoeffs, l \in Labels}
  \cup {[op |-> "input", call |-> "measure", a |-> a, b |-> b] : a \in Measured, b \in Fronts}

Fresh ==
  /\ cursor = 1
  /\ ns = Unbound
  /\ heap = <<>>
  /\ count = 0
  /\ outs = <<>>
  /\ calls = <<>>
  /\ status = "ok"
  /\ faults = 0
  /\ twin = FreshTwin

Init ==
  /\ Fresh
  /\ \/ nb \in Files /\ lib = NoLib
     \/ nb = "console" /\ lib \in LibInputs

\* the kernel after the cell at the cursor ran as K
Finish(K) ==
  /\ ns' = K.ns
  /\ heap' = K.heap
  /\ count' = count + 1
  /\ outs' = Append(outs, CellRecord(count + 1, K))
  /\ calls' = K.calls
  /\ status' = IF K.err = "" THEN "ok" ELSE K.err
  /\ cursor' = cursor + 1
  /\ twin' = TwinStep(Other(nb), cursor, twin)
  /\ UNCHANGED <<nb, lib>>

\* the cell at the cursor runs and no library call fails
RunCell ==
  /\ cursor <= Len(CodeCells(nb))
  /\ \E K \in {ExecCell(CodeCells(nb)[cursor], ns, heap, 0)} : Finish(K)
  /\ UNCHANGED faults

\* the cell at the cursor runs and its f-th fallible statement fails in the library
RunCellFailing ==
  /\ cursor <= Len(CodeCells(nb))
  /\ faults < MaxFaults
  /\ \E f \in 1..CountFallible(CodeCells(nb)[cursor], 1) :
       \E K \in {ExecCell(CodeCells(nb)[cursor], ns, heap, f)} :
         /\ K.injected
         /\ Finish(K)
  /\ faults' = faults + 1

\* the drawn call made: lib keeps the operands and gets the results
Called(call, res, alt) ==
  /\ lib.op = "input"
  /\ lib.call = call
  /\ lib' = [op |-> "done", call |-> call, a |-> lib.a, b |-> lib.b, res |-> res, alt |-> alt]
  /\ UNCHANGED kvars

\* PauliExpectation().convert(~StateFn(a)); alt is the measurement before conversion
LibConvert ==
  Called("convert",
         PauliExpectationConvert(Adjoint(StateFn(lib.a, CoefOne, FALSE))),
         Adjoint(StateFn(lib.a, CoefOne, FALSE)))

\* a @ b, and a.compose(b) as alt
LibCompose == Called("compose", MatMul(lib.a, lib.b), Compose(lib.a, lib.b))

\* a ^ b, and a.tensor(b) or a.tensorpower(b) as alt
LibTensor ==
  Called("tensor", Xor(lib.a, lib.b),
         IF lib.b.t = "int" THEN TensorPower(lib.a, lib.b.v) ELSE Tensor(lib.a, lib.b))

\* StateFn(a)
LibStateFn == Called("StateFn", StateFn(lib.a, CoefOne, FALSE), PyNone)

\* StateFn(a, coeff).eval(label); alt is the state function
LibEval ==
  Called("eval",
         Eval(StateFn(lib.a, Coef(ToScalar(lib.b.coeff), ""), FALSE), lib.b.label),
         StateFn(lib.a, Coef(ToScalar(lib.b.coeff), ""), FALSE))

\* a.adjoint().eval(b); alt is the measurement a.adjoint()
LibMeasure ==
  Called("measure",
         Eval(Adjoint(lib.a), lib.b),
         Adjoint(lib.a))

Next ==
  \/ RunCell
  \/ RunCellFailing
  \/ LibConvert
  \/ LibCompose
  \/ LibTensor
  \/ LibStateFn
  \/ LibEval
  \/ LibMeasure

Spec == Init /\ [][Next]_vars

\* the value bound to the name ("unbound" when there is none)
Bound(n, h, x) == IF n[x] = 0 THEN [t |-> "unbound"] ELSE h[n[x]]

(***************************************************************************)
(* Properties.                                                             *)
(***************************************************************************)
\* the value bound to the name in the session
At(x) == Bound(ns, heap, x)

\* the first c cells of the file have run in a fresh kernel and none failed
Ran(file, c) == nb = file /\ cursor > c /\ faults = 0

\* the amplitude a state gives the basis label
AmpAt(s, bits) == VAt(NormV(ToVector(s)), LabelIndex(bits))

\* the two denote one state vector
SameState(a, b) == NormV(ToVector(a)) = NormV(ToVector(b))

\* StateFn({'00': 1, '11': 1}, 1 / sqrt(2))
BellDict ==
  StateFn(PyDict(<<PyLabel(<<0, 0>>), PyLabel(<<1, 1>>)>>, <<PyInt(1), PyInt(1)>>),
          Coef(SInvSqrt2, ""), FALSE)

\* C1, as stated: once the Example cell has run, bell is the Bell state Phi+: equal
\* non-zero amplitudes on '00' and '11', amplitude 0 on '01' and '10', the same state
\* as StateFn({'00': 1, '11': 1}, 1 / sqrt(2)).  The session refutes it.
C1_BellIsPhiPlus ==
  Ran("full", 23) =>
    /\ AmpAt(At("bell"), <<0, 0>>) = AmpAt(At("bell"), <<1, 1>>)
    /\ AmpAt(At("bell"), <<0, 0>>) # SZero
    /\ AmpAt(At("bell"), <<0, 1>>) = SZero
    /\ AmpAt(At("bell"), <<1, 0>>) = SZero
    /\ SameState(At("bell"), BellDict)

\* the bindings of the names in xs
View(n, h, xs) == [x \in xs |-> Bound(n, h, x)]

\* the names only the notebook's import cell binds
ImportedByFullOnly == {"BasicAer", "Pauli"}

Min(a, b) == IF a < b THEN a ELSE b

\* C2, as stated: run side by side from fresh kernels, the two files go through the
\* same name bindings and the same outputs.  The session refutes it.
C2_SameBindingsAndOutputs ==
  (nb \in Files /\ faults = 0) =>
    /\ View(ns, heap, Names) = View(twin.ns, twin.heap, Names)
    /\ outs = twin.outs

\* C2, amended: the draft holds the first twelve of the notebook's cells, with an
\* import cell that binds neither BasicAer nor Pauli.  Run side by side, the outputs
\* of the draft are those of the notebook's first cells, and as long as both files have
\* cells left every name other than BasicAer and Pauli has the same binding in both.
C2_DraftIsPrefix ==
  (nb \in Files /\ faults = 0) =>
    /\ Len(DraftCells) < Len(FullCells)
    /\ Len(twin.outs) = Min(cursor - 1, Len(CodeCells(Other(nb))))
    /\ SubSeq(outs, 1, Len(twin.outs)) = twin.outs
    /\ cursor - 1 <= Len(DraftCells) =>
         View(ns, heap, Names \ ImportedByFullOnly)
           = View(twin.ns, twin.heap, Names \ ImportedByFullOnly)
    /\ (nb = "full" /\ cursor > 1) =>
         \A x \in ImportedByFullOnly : ns[x] # 0 /\ twin.ns[x] = 0

\* the draft has run to its end beside the notebook's first twelve cells
C2_Witness ==
  /\ Ran("draft", Len(DraftCells))
  /\ Len(twin.outs) = Len(DraftCells)
  /\ outs[Len(DraftCells)].items # <<>>

\* a drawn observable has been converted
Converted == lib.op = "done" /\ lib.call = "convert"

\* the Pauli operators summed in an observable
Terms(obs) == IF obs.t = "SummedOp" THEN obs.oplist ELSE <<obs>>

\* the groups of a converted measurement: each a ComposedOp of a diagonal measurement
\* and a change of basis
Groups(conv) == IF conv.t = "SummedOp" THEN conv.oplist ELSE <<conv>>

\* the Pauli operators the group measures
GroupOps(g) ==
  IF g.oplist[1].prim.t = "SummedOp" THEN g.oplist[1].prim.oplist ELSE <<g.oplist[1].prim>>

\* the gates the group's change of basis applies to qubit q, in order
GatesOn(g, q) ==
  IF g.oplist[2].t = "CircuitOp"
  THEN LET on(x) == x.qs = <<q>>
           sel == SelectSeq(g.oplist[2].prim.gates, on)
       IN [j \in 1..Len(sel) |-> sel[j].g]
  ELSE <<>>

\* the post-rotation that measures the letter in the computational basis
Expected(letter) ==
  CASE letter = "X" -> <<"h">>
    [] letter = "Y" -> <<"sdg", "h">>
    [] OTHER -> <<>>

\* the group measures the term: it holds the term with Z for every letter that is not
\* I, and rotates every qubit on which the term is not I as the term's letter asks
InGroup(t, g) ==
  /\ \E j \in 1..Len(GroupOps(g)) :
       GroupOps(g)[j].prim = [p \in 1..Len(t.prim) |-> IF t.prim[p] = "I" THEN "I" ELSE "Z"]
  /\ \A p \in 1..Len(t.prim) :
       t.prim[p] # "I" => GatesOn(g, Len(t.prim) - p) = Expected(t.prim[p])

\* the groups that measure term i of the drawn observable
GroupsOf(i) ==
  {g \in 1..Len(Groups(lib.res)) : InGroup(Terms(lib.a)[i], Groups(lib.res)[g])}

\* different letters, neither of them I, at no position
LetterWise(p, q) == \A i \in 1..Len(p) : p[i] = q[i] \/ p[i] = "I" \/ q[i] = "I"

C4_DiagonalWithRotations ==
  /\ Converted =>
       /\ \A g \in 1..Len(Groups(lib.res)) :
            \A j \in 1..Len(GroupOps(Groups(lib.res)[g])) :
              \A p \in 1..Len(GroupOps(Groups(lib.res)[g])[j].prim) :
                GroupOps(Groups(lib.res)[g])[j].prim[p] \in {"Z", "I"}
       /\ \A i \in 1..Len(Terms(lib.a)) : GroupsOf(i) # {}
       /\ \A g \in 1..Len(Groups(lib.res)) :
            /\ \A q \in 0..(Len(Terms(lib.a)[1].prim) - 1) :
                 \/ GatesOn(Groups(lib.res)[g], q) = <<>>
                 \/ \E i \in 1..Len(Terms(lib.a)) :
                      /\ g \in GroupsOf(i)
                      /\ Terms(lib.a)[i].prim[Len(Terms(lib.a)[i].prim) - q] \in {"X", "Y"}
            /\ Groups(lib.res)[g].oplist[2].t = "CircuitOp" =>
                 \A x \in 1..Len(Groups(lib.res)[g].oplist[2].prim.gates) :
                   Len(Groups(lib.res)[g].oplist[2].prim.gates[x].qs) = 1
            /\ Groups(lib.res)[g].oplist[2].t # "CircuitOp" =>
                 Groups(lib.res)[g].oplist[2] = MkOp("PauliOp", <<"I", "I">>, CoefOne)
  /\ Ran("full", 21) =>
       /\ Len(Groups(outs[21].items[1].val)) = 3
       /\ \A g \in 1..3 :
            GroupOps(Groups(outs[21].items[1].val)[g])
              = <<MkOp("PauliOp", <<"Z", "Z">>, CoefOne)>>
       /\ \A q \in 0..1 :
            /\ GatesOn(Groups(outs[21].items[1].val)[1], q) = <<"h">>
            /\ GatesOn(Groups(outs[21].items[1].val)[2], q) = <<"sdg", "h">>
       /\ Groups(outs[21].items[1].val)[3].oplist[2] = MkOp("PauliOp", <<"I", "I">>, CoefOne)

\* an observable with the term XY beside a diagonal term has been converted
C4_Witness ==
  /\ Converted
  /\ Len(Terms(lib.a)) = 2
  /\ Terms(lib.a)[1].prim = <<"X", "Y">>
  /\ Terms(lib.a)[2].prim = <<"Z", "I">>
  /\ GatesOn(Groups(lib.res)[1], 0) = <<"sdg", "h">>
  /\ GatesOn(Groups(lib.res)[1], 1) = <<"h">>

\* C5: the converted measurement gives every state the expectation value the
\* measurement it was converted from gives it
C5_SameExpectation ==
  Converted =>
    /\ Eval(lib.alt, lib.b).t = "float"
    /\ Eval(lib.res, lib.b).t = "float"
    /\ NormS(Eval(lib.res, lib.b).s) = NormS(Eval(lib.alt, lib.b).s)

\* a sum with a Y term, measured in two groups, on a state of complex amplitudes
\* that gives it a value other than 0
C5_Witness ==
  /\ Converted
  /\ Len(Groups(lib.res)) = 2
  /\ \E i \in 1..Len(Terms(lib.a)) : \E p \in 1..2 : Terms(lib.a)[i].prim[p] = "Y"
  /\ \E i \in 1..4 : ToVector(lib.b).amp[i].im # 0
  /\ Eval(lib.alt, lib.b).s # SZero

\* the pre-built operators
Prebuilt == {"X", "Y", "Z", "I", "CX", "S", "H", "Swap", "CZ", "T"}

\* the operations the notebook applies to operators
OperatorCalls ==
  {"^", ".tensor", "+", "@", ".compose", "*", ".exp_i", ".adjoint", ".convert",
   ".bind_parameters"}

\* C6: in every step of a session, every operator and state function on the heap is
\* left as it was, each pre-built operator that is bound is the library's own (its
\* primitive and its coefficient 1), every operator call of the cell returned an object
\* that was not on the heap before and is none of its operands, and hamiltonian, once
\* bound, has coefficient 1 (so still after evolution_param * hamiltonian).
C6_Immutable ==
  [][/\ \A r \in 1..Len(heap) :
          heap[r].t \in (OperatorTypes \cup StateFnTypes)
            => (r <= Len(heap') /\ heap'[r] = heap[r])
     /\ \A x \in Prebuilt : ns'[x] # 0 => heap'[ns'[x]] = ImportValue(x)
     /\ \A c \in 1..Len(calls') :
          calls'[c].fn \in OperatorCalls
            => /\ calls'[c].res > calls'[c].hlen
               /\ \A a \in 1..Len(calls'[c].args) : calls'[c].args[a] # calls'[c].res
     /\ ns'["hamiltonian"] # 0
          => /\ heap'[ns'["hamiltonian"]].coeff = CoefOne
             /\ \A j \in 1..Len(heap'[ns'["hamiltonian"]].oplist) :
                  heap'[ns'["hamiltonian"]].oplist[j].coeff = CoefOne]_vars

\* the Example has run: hamiltonian has been multiplied by the parameter twice, and the
\* products evolved, composed, converted and bound
C6_Witness ==
  /\ Ran("full", 23)
  /\ At("evolution_op").t = "EvolvedOp"
  /\ At("evolution_op").prim.coeff.par = "theta"
  /\ At("hamiltonian").coeff = CoefOne
  /\ At("X") = X

\* a drawn pair has been composed
Composed == lib.op = "done" /\ lib.call = "compose" /\ ~IsError(lib.alt)

RECURSIVE KronPower(_, _)
\* v tensored with itself m times
KronPower(v, m) == IF m = 1 THEN v ELSE Kron(KronPower(v, m - 1), v)

\* a drawn pair has been tensored
Tensored == lib.op = "done" /\ lib.call = "tensor"

\* C9: a ^ b is a.tensor(b), and a ^ m for an integer m is a tensored with itself m
\* times: m times as many qubits, and the state vector the m-fold Kronecker power of
\* a's.  In both files uniform = Plus ^ 5 is a circuit state on 5 qubits with one gate
\* on each of them, an H.
C9_XorIsTensor ==
  /\ Tensored =>
       /\ lib.res = lib.alt
       /\ ~IsError(lib.res)
       /\ IF lib.b.t = "int"
          THEN /\ NumQubits(lib.res) = lib.b.v * NumQubits(lib.a)
               /\ NormV(ToVector(lib.res)) = NormV(KronPower(ToVector(lib.a), lib.b.v))
          ELSE /\ NumQubits(lib.res) = NumQubits(lib.a) + NumQubits(lib.b)
               /\ NormV(ToVector(lib.res)) = NormV(Kron(ToVector(lib.a), ToVector(lib.b)))
  /\ (nb \in Files /\ cursor > 9 /\ faults = 0) =>
       /\ At("uniform").t = "CircuitStateFn"
       /\ At("uniform").prim.n = 5
       /\ Len(At("uniform").prim.gates) = 5
       /\ \A q \in 0..4 :
            \E j \in 1..5 : At("uniform").prim.gates[j] = Ins("h", <<q>>)

\* a vector state raised to the largest power drawn
C9_Witness ==
  /\ Tensored
  /\ lib.a.t = "VectorStateFn"
  /\ lib.b = PyInt(MaxPower)
  /\ NumQubits(lib.res) = MaxPower

\* C10: StateFn makes a VectorStateFn of a list, a DictStateFn of a dictionary, a
\* CircuitStateFn of a QuantumCircuit and an OperatorStateFn of an operator, each
\* holding the primitive it was given; in both files type(psi_minus),
\* type(psi_minus_dict) and type(psi_minus_qc) show these classes.
C10_ClassByPrimitive ==
  /\ (lib.op = "done" /\ lib.call = "StateFn") =>
       /\ lib.a.t = "list" =>
            /\ lib.res.t = "VectorStateFn"
            /\ \A i \in 1..Len(lib.a.items) :
                 VAt(lib.res.prim, i - 1) = Sc(lib.a.items[i].v, 0, 0)
       /\ lib.a.t = "dict" =>
            /\ lib.res.t = "DictStateFn"
            /\ \A i \in 1..Len(lib.a.keys) :
                 /\ lib.res.prim.keys[i] = lib.a.keys[i].bits
                 /\ lib.res.prim.vals[i] = lib.a.vals[i].v
       /\ lib.a.t = "QuantumCircuit" =>
            /\ lib.res.t = "CircuitStateFn"
            /\ lib.res.prim.gates = lib.a.gates
       /\ lib.a.t \in OperatorTypes =>
            /\ lib.res.t = "OperatorStateFn"
            /\ lib.res.prim = lib.a
       /\ lib.res.t \in StateFnTypes => ~lib.res.meas /\ lib.res.coeff = CoefOne
  /\ (nb \in Files /\ cursor > 6 /\ faults = 0) =>
       /\ outs[4].items = <<[kind |-> "execute_result", val |-> PyType("VectorStateFn")]>>
       /\ outs[5].items = <<[kind |-> "execute_result", val |-> PyType("DictStateFn")]>>
       /\ outs[6].items = <<[kind |-> "execute_result", val |-> PyType("CircuitStateFn")]>>
  /\ Ran("full", 21) => At("hamiltonian_meas").t = "OperatorStateFn"

\* a sum of Pauli operators wrapped in a state function
C10_Witness ==
  /\ lib.op = "done"
  /\ lib.call = "StateFn"
  /\ lib.a.t = "SummedOp"
  /\ lib.res.t = "OperatorStateFn"


\* the primitive's own amplitude for the label: the list entry at int(label, 2), the
\* dictionary value of the key, 0 when the label is not a key
PrimAmp(prim, bits) ==
  IF prim.t = "list" THEN prim.items[LabelIndex(bits) + 1].v
  ELSE IF \E i \in 1..Len(prim.keys) : prim.keys[i].bits = bits
       THEN prim.vals[CHOOSE i \in 1..Len(prim.keys) : prim.keys[i].bits = bits].v
       ELSE 0

\* the number of qubits of a list or dictionary primitive
PrimQubits(prim) ==
  IF prim.t = "list" THEN Log2(Len(prim.items)) ELSE Len(prim.keys[1].bits)

\* the value that ends the j-th line cell c printed
Printed(c, j) == outs[c].items[j].val.of[Len(outs[c].items[j].val.of)]

\* the drawn .eval(label) call returned, the label as long as the primitive's labels
Evaluated ==
  /\ lib.op = "done"
  /\ lib.call = "eval"
  /\ Len(lib.b.label.bits) = PrimQubits(lib.a)

\* C11: .eval(label) of a state function with a list or dictionary primitive is the
\* coefficient times the primitive's amplitude for the label, 0 for a label that is not
\* a key of the dictionary; {'0': 0, '1': 1} evaluates as {'1': 1} does; cell 3 prints
\* +1/sqrt(2) and -1/sqrt(2) for psi_minus, and the loop of cell 8 prints 1/sqrt(2), 0,
\* 0, 1/sqrt(2) for the dictionary Bell state.
C11_EvalReadsAmplitude ==
  /\ Evaluated =>
       /\ lib.res = PyFloat(SMul(lib.b.coeff.s, Sc(PrimAmp(lib.a, lib.b.label.bits), 0, 0)))
       /\ (lib.a.t = "dict" /\ (\A i \in 1..Len(lib.a.keys) : lib.a.keys[i] # lib.b.label))
            => lib.res = PyFloat(SZero)
       /\ lib.a = PyDict(<<PyLabel(<<0>>), PyLabel(<<1>>)>>, <<PyInt(0), PyInt(1)>>)
            => lib.res = Eval(StateFn(PyDict(<<PyLabel(<<1>>)>>, <<PyInt(1)>>),
                                      Coef(ToScalar(lib.b.coeff), ""), FALSE),
                              lib.b.label)
  /\ (nb \in Files /\ cursor > 3 /\ faults = 0) =>
       /\ Printed(3, 1) = PyFloat(SInvSqrt2)
       /\ Printed(3, 2) = PyFloat(Sc(-1, 0, 1))
  /\ (nb \in Files /\ cursor > 8 /\ faults = 0) =>
       /\ Len(outs[8].items) = 4
       /\ Printed(8, 1) = PyFloat(SInvSqrt2)
       /\ Printed(8, 2) = PyFloat(SZero)
       /\ Printed(8, 3) = PyFloat(SZero)
       /\ Printed(8, 4) = PyFloat(SInvSqrt2)

\* the dictionary Bell state with coefficient 1 / np.sqrt(2) was read at the label 01,
\* which is not one of its keys
C11_Witness ==
  /\ Evaluated
  /\ lib.a = PyDict(<<PyLabel(<<0, 0>>), PyLabel(<<1, 1>>)>>, <<PyInt(1), PyInt(1)>>)
  /\ lib.b.coeff = PyFloat(SInvSqrt2)
  /\ lib.b.label = PyLabel(<<0, 1>>)
  /\ lib.res = PyFloat(SZero)


\* the amplitude a state function gives the basis label of index i
LabelAmp(s, i) == Eval(s, PyLabel(IndexLabel(i, NumQubits(s)))).s

RECURSIVE InnerProduct(_, _, _, _)
\* acc + the sum over the labels of index i.. of conj(a(label)) b(label)
InnerProduct(a, b, i, acc) ==
  IF i >= 2 ^ NumQubits(a) THEN acc
  ELSE InnerProduct(a, b, i + 1, SAdd(acc, SMul(SConj(LabelAmp(a, i)), LabelAmp(b, i))))

\* the drawn a.adjoint().eval(b) returned, a and b on as many qubits
MeasuredOn ==
  /\ lib.op = "done"
  /\ lib.call = "measure"
  /\ NumQubits(lib.a) = NumQubits(lib.b)

\* C12: a.adjoint() is a measurement of the class of a whose adjoint is a again, and
\* a.adjoint().eval(b) is the inner product <a|b>; cell 20 prints
\* DictMeasurement({'0': 1}) for Zero.adjoint(), 0 for <0|1>, 1/sqrt(2) for <0|+> and
\* -1/sqrt(2) for (One.adjoint() @ Z @ Plus).eval().
C12_MeasurementIsInnerProduct ==
  /\ MeasuredOn =>
       /\ lib.alt.t = lib.a.t
       /\ lib.alt.meas
       /\ Adjoint(lib.alt) = lib.a
       /\ lib.res = PyFloat(InnerProduct(lib.a, lib.b, 0, SZero))
  /\ Ran("full", 20) =>
       /\ Printed(20, 1) = MkStateFn("DictStateFn", [keys |-> <<<<0>>>>, vals |-> <<1>>],
                                     CoefOne, TRUE)
       /\ Printed(20, 2) = PyFloat(SZero)
       /\ Printed(20, 3) = PyFloat(SInvSqrt2)
       /\ Printed(20, 4) = PyFloat(Sc(-1, 0, 1))

\* a state function with the coefficient 1j / np.sqrt(2) was made a measurement and
\* gave a number that is not real on a state function
C12_Witness ==
  /\ MeasuredOn
  /\ lib.a.coeff.num = Sc(0, 1, 1)
  /\ lib.res.t = "float"
  /\ lib.res.s.im # 0


RECURSIVE ExprCalls(_)
RECURSIVE ArgCalls(_, _)
\* the calls of the expressions es[i..], one expression after the other
ArgCalls(es, i) == IF i > Len(es) THEN <<>> ELSE ExprCalls(es[i]) \o ArgCalls(es, i + 1)

\* the calls an expression makes, in the order Python makes them: those of the
\* arguments left to right, then the call itself
ExprCalls(e) == IF e.e = "app" THEN ArgCalls(e.args, 1) \o <<e.fn>> ELSE <<>>

RECURSIVE Repeat(_, _)
Repeat(s, n) == IF n = 0 THEN <<>> ELSE s \o Repeat(s, n - 1)

RECURSIVE BlockCalls(_, _, _)
\* the calls of the statements i.. of a block when every statement runs in order, the
\* body of a for loop once per item of its list (loops) or once (~loops)
BlockCalls(stmts, i, loops) ==
  IF i > Len(stmts) THEN <<>>
  ELSE (CASE stmts[i].s \in {"assign", "expr", "print"} -> ExprCalls(stmts[i].value)
          [] stmts[i].s = "for" ->
               ExprCalls(stmts[i].iter)
               \o Repeat(BlockCalls(stmts[i].body, 1, loops),
                         IF loops THEN Len(stmts[i].iter.args) ELSE 1)
          [] OTHER -> <<>>)
       \o BlockCalls(stmts, i + 1, loops)

\* the calls the last cell made, by name
CallsMade == [i \in 1..Len(calls) |-> calls[i].fn]

\* a cell of the notebook file has run to its end
CellDone == nb \in Files /\ cursor > 1 /\ status = "ok"

\* the cell that ran last
LastCell == CodeCells(nb)[cursor - 1]

HasLoop(cell) == \E i \in 1..Len(cell) : cell[i].s = "for"

\* C13 as stated: every cell runs each of its statements once, in order.  Cell 8 fails
\* it: the print in its for loop runs once per basis label.
C13_StatementsOnceInOrder == CellDone => CallsMade = BlockCalls(LastCell, 1, FALSE)

\* C13: the cells run one at a time in document order, each to its end before the next
\* starts (the k-th record is the k-th cell's, and the cell to run is the one after the
\* last record); inside a cell the statements run in order, each once, except the body
\* of the for loop of cell 8 (the only loop of either file), which runs once per item
\* of its list.
C13_SequentialCellsOneLoop ==
  /\ nb \in Files =>
       /\ count = cursor - 1
       /\ Len(outs) = count
       /\ \A k \in 1..Len(outs) : outs[k].count = k
  /\ CellDone => CallsMade = BlockCalls(LastCell, 1, TRUE)
  /\ (CellDone /\ ~HasLoop(LastCell)) => CallsMade = BlockCalls(LastCell, 1, FALSE)
  /\ \A f \in Files : \A c \in 1..Len(CodeCells(f)) : HasLoop(CodeCells(f)[c]) <=> c = 8

\* cell 8 has run: its four prints made it 13 calls for the 7 calls of its text
C13_Witness ==
  /\ CellDone
  /\ cursor = 9
  /\ Len(calls) = 13
  /\ Len(BlockCalls(LastCell, 1, FALSE)) = 7


RECURSIVE Targets(_, _)
\* the names the statements i.. of a block bind: assignment targets, loop variables,
\* imported names
Targets(stmts, i) ==
  IF i > Len(stmts) THEN {}
  ELSE (CASE stmts[i].s = "assign" -> {stmts[i].target}
          [] stmts[i].s = "for" -> {stmts[i].var} \cup Targets(stmts[i].body, 1)
          [] stmts[i].s = "import" -> {stmts[i].names[k] : k \in 1..Len(stmts[i].names)}
          [] OTHER -> {})
       \cup Targets(stmts, i + 1)

\* s is t or the beginning of t
IsPrefix(s, t) == Len(s) <= Len(t) /\ SubSeq(t, 1, Len(s)) = s

\* what a run of a cell did, counted: calls made, outputs displayed, names rebound
Work(n0, n1, made, shown) == made + shown + Cardinality({x \in Names : n1[x] # n0[x]})

\* a step in which a library call of the cell at the cursor fails
Failing == nb \in Files /\ faults' = faults + 1

\* the statement kinds of the cells: none is a try statement
StatementKinds == {"assign", "expr", "print", "for", "import", "magic"}

\* C14 as stated: when a library call fails in a cell, the error is the cell's last
\* output and every name bound before the cell has the value it had.  The Example cell
\* fails it: a failure after its second statement leaves bell rebound.
C14_EarlierBindingsKept ==
  [][Failing =>
       /\ status' = "LibraryError"
       /\ \A x \in Names : ns[x] # 0 => Bound(ns', heap', x) = Bound(ns, heap, x)]_vars

\* C14: no cell has a statement that catches an exception; when a library call fails in
\* a cell, the cell's record ends with the one error, the calls made are a beginning of
\* the calls of the cell, less was done than the cell run without the failure does, and
\* every name that no statement of the cell binds has the value it had (a name bound by
\* an earlier cell that the cell had rebound before the failure has the new value).
C14_FailureEndsCell ==
  [][/\ \A f \in Files : \A c \in 1..Len(CodeCells(f)) : \A i \in 1..Len(CodeCells(f)[c]) :
          CodeCells(f)[c][i].s \in StatementKinds
     /\ Failing =>
          LET cell == CodeCells(nb)[cursor]
              rec == outs'[Len(outs')].items
              K0 == ExecCell(cell, ns, heap, 0)
          IN /\ status' = "LibraryError"
             /\ rec[Len(rec)] = [kind |-> "error", val |-> PyError("LibraryError")]
             /\ \A i \in 1..(Len(rec) - 1) : rec[i].kind # "error"
             /\ IsPrefix([i \in 1..Len(calls') |-> calls'[i].fn], BlockCalls(cell, 1, TRUE))
             /\ K0.err = ""
                  => Work(ns, ns', Len(calls'), Len(rec) - 1)
                       < Work(ns, K0.ns, Len(K0.calls), Len(K0.outs))
             /\ \A x \in Names \ Targets(cell, 1) :
                  Bound(ns', heap', x) = Bound(ns, heap, x)]_vars

\* a library call of the Example cell failed after bell was rebound and before
\* evo_and_meas was bound
C14_Witness ==
  /\ nb = "full"
  /\ cursor = 24
  /\ status = "LibraryError"
  /\ At("bell").t # "DictStateFn"
  /\ At("bell").t # "unbound"
  /\ At("evo_and_meas").t = "unbound"


\* the execution_count stored with each code cell of the file, in document order
ExecutionCounts(file) ==
  CASE file = "full" -> [i \in 1..24 |-> i]
    [] file = "draft" -> <<1, 2, 3, 4, 14, 19, 20, 24, 33, 19, 26, 27>>
    [] OTHER -> <<>>

\* C15: in each file the execution counts stored with the code cells are strictly
\* increasing in document order, as the counts a kernel gives in one run from top to
\* bottom are (checked over the cells a session has run).  The draft fails it: its 9th
\* cell has the count 33 and its 10th the count 19, which its 6th has as well.
C15_CountsIncrease ==
  nb \in Files =>
    /\ Len(ExecutionCounts(nb)) = Len(CodeCells(nb))
    /\ \A i, j \in 1..Len(outs) :
         (i < j /\ outs[i].count < outs[j].count)
           => ExecutionCounts(nb)[i] < ExecutionCounts(nb)[j]

====
